---- MODULE Spec2Model ----
(***************************************************************************)
(* Model of the ai-todo-chatbot React frontend: the App shell (both        *)
(* variants kept in frontend/src/App.jsx), the Dashboard aggregator and    *)
(* the sidebar tab filter, together with the backend and the network the   *)
(* App shell talks to, the Login form (unnamed/part_000) and the paginator *)
(* of the paginated variant.                                               *)
(***************************************************************************)
EXTENDS Integers, Sequences, FiniteSets, TLC

VARIABLES
    variant,          \* 1: App.jsx lines 1-276, 2: App.jsx lines 278-609,
                      \* 3: the paginated variant the specification describes
    mounted,          \* the mount effects have run
    isAuthenticated,  \* isAuthenticated (variant 1) / isLoggedIn (variant 2)
    username,
    token,
    darkMode,
    messages,         \* chat transcript
    input,
    tasks,            \* in-memory task list
    loading,
    sidebarOpen,      \* variant 2
    activeTab,        \* variant 2
    refreshKey,       \* variant 2
    localStorage,     \* browser local storage: key -> string or Null
    loginLoading,     \* Login view: loading
    net,              \* requests in flight, in the order they were issued
    server,           \* backend: user -> that user's task list
    nextId,           \* backend: next task id
    now,              \* current UTC day (days since 2025-01-01)
    filteredTasks,    \* render output: getFilteredTasks()
    stats,            \* render output: the Dashboard's statistics
    clicks,           \* history: number of user actions so far
    tasksFrom,        \* history: token of the request whose response filled tasks
    sessionOk,        \* history: no request failed and no response of an
                      \* earlier session was handled since the session began
    isSignup,         \* Login view: the Sign Up tab is selected
    formData,         \* Login view: username, email, password (sequences of characters)
    error,            \* Login view: inline error
    pageSize,         \* paginated variant: items per page
    currentPage,      \* paginated variant: 1-indexed pagination cursor
    pages,            \* render output of the paginated variant: the slice of each page
    loggedOut         \* history: handleLogout has run and no login has succeeded since

vars == <<variant, mounted, isAuthenticated, username, token, darkMode, messages,
          input, tasks, loading, sidebarOpen, activeTab, refreshKey, localStorage,
          loginLoading, net, server, nextId, now, filteredTasks, stats, clicks,
          tasksFrom, sessionOk, isSignup, formData, error, pageSize, currentPage,
          pages, loggedOut>>

Null == "null"

(***************************************************************************)
(* Bounds                                                                  *)
(***************************************************************************)
MaxLen == 2       \* longest enumerated task list handed to the tab filter and the Dashboard
MaxRateLen == 40  \* longest task list of the completed-then-todo family
MaxInFlight == 2  \* requests in flight at once
MaxMsgs == 3      \* transcript length up to which new chat messages are sent
MaxId == 3        \* last task id the backend hands out
MaxRefresh == 1   \* refreshKey value up to which completeTask is clicked
MaxClicks == 4    \* user actions in one behaviour
MaxNameLen == 3   \* longest username typed into the Login form
MaxEmailLen == 5  \* longest email typed into the Login form
MaxPwLen == 4     \* longest password typed into the Login form
MaxItems == 17    \* longest task list handed to the paginator
MaxPageSize == 8  \* largest page size the paginator is tried with

(***************************************************************************)
(* Dates.  toISOString().split('T')[0] yields 'YYYY-MM-DD'; such a string  *)
(* is modelled by the triple <<year, month, day>> and the comparison of    *)
(* two such strings by the lexicographic order of the triples.             *)
(***************************************************************************)
MonthLen == <<31, 28, 31, 30, 31, 30, 31, 31, 30, 31, 30, 31>>

RECURSIVE MonthDay(_, _)
\* the <<month, day>> of the d-th day (from 0) of a 365-day year, from month m on
MonthDay(m, d) ==
    IF d < MonthLen[m] THEN <<m, d + 1>> ELSE MonthDay(m + 1, d - MonthLen[m])

\* Date.prototype.toISOString().split('T')[0] of the day n days after
\* 2025-01-01 (2025, 2026 and 2027 have 365 days)
ToISODate(n) ==
    LET md == MonthDay(1, n % 365)
    IN  <<2025 + (n \div 365), md[1], md[2]>>

\* a <= b on 'YYYY-MM-DD' strings (JavaScript string comparison)
StrLeq(a, b) ==
    \/ a[1] < b[1]
    \/ a[1] = b[1] /\ a[2] < b[2]
    \/ a[1] = b[1] /\ a[2] = b[2] /\ a[3] <= b[3]

(***************************************************************************)
(* Tasks                                                                   *)
(***************************************************************************)
\* the page size of the paginated variant
PageSize == 8

Statuses == {"todo", "in_progress", "completed"}
Priorities == {"urgent", "high", "medium", "low"}
Tabs == {"all", "today", "week", "urgent", "high", "completed"}

\* an absent due_date or created_at (null, undefined or '': all falsy)
NoDate == <<>>

Task(id, status, priority, due, created) ==
    [id |-> id, status |-> status, priority |-> priority,
     due_date |-> due, created_at |-> created]

(***************************************************************************)
(* Tab filter (App.jsx, variant 2)                                         *)
(***************************************************************************)
\* a faulty callback: the status test of the today, week, urgent and high
\* tabs is left out
TabPredicateDropStatus(tab, t, day) ==
    LET today == ToISODate(day)
        nextWeek == ToISODate(day + 7)
    IN  CASE tab = "today" -> t.due_date = today
          [] tab = "week" -> t.due_date # NoDate /\ StrLeq(t.due_date, nextWeek)
          [] tab = "urgent" -> t.priority = "urgent"
          [] tab = "high" -> t.priority = "high"
          [] tab = "completed" -> t.status = "completed"
          [] OTHER -> TRUE

\* a callback whose week tab starts today: overdue tasks are left out
TabPredicateFromToday(tab, t, day) ==
    LET today == ToISODate(day)
        nextWeek == ToISODate(day + 7)
    IN  CASE tab = "today" -> t.due_date = today /\ t.status # "completed"
          [] tab = "week" -> /\ t.due_date # NoDate
                             /\ StrLeq(today, t.due_date)
                             /\ StrLeq(t.due_date, nextWeek)
                             /\ t.status # "completed"
          [] tab = "urgent" -> t.priority = "urgent" /\ t.status # "completed"
          [] tab = "high" -> t.priority = "high" /\ t.status # "completed"
          [] tab = "completed" -> t.status = "completed"
          [] OTHER -> TRUE

\* a callback whose week tab leaves out the tasks due today
TabPredicateAfterToday(tab, t, day) ==
    LET today == ToISODate(day)
        nextWeek == ToISODate(day + 7)
    IN  CASE tab = "today" -> t.due_date = today /\ t.status # "completed"
          [] tab = "week" -> /\ t.due_date # NoDate
                             /\ t.due_date # today
                             /\ StrLeq(t.due_date, nextWeek)
                             /\ t.status # "completed"
          [] tab = "urgent" -> t.priority = "urgent" /\ t.status # "completed"
          [] tab = "high" -> t.priority = "high" /\ t.status # "completed"
          [] tab = "completed" -> t.status = "completed"
          [] OTHER -> TRUE

\* the callback handed to tasks.filter for each case of the switch
TabPredicate(tab, t, day) ==
    LET today == ToISODate(day)
        nextWeek == ToISODate(day + 7)
    IN  CASE tab = "today" -> t.due_date = today /\ t.status # "completed"
          [] tab = "week" -> /\ t.due_date # NoDate
                             /\ StrLeq(t.due_date, nextWeek)
                             /\ t.status # "completed"
          [] tab = "urgent" -> t.priority = "urgent" /\ t.status # "completed"
          [] tab = "high" -> t.priority = "high" /\ t.status # "completed"
          [] tab = "completed" -> t.status = "completed"
          [] OTHER -> TRUE

\* tasks.filter(t => ...) with the callback of the tab: Array.prototype.filter
\* visits the elements in index order and keeps those the callback accepts
RECURSIVE FilterTab(_, _, _)
FilterTab(ts, tab, day) ==
    IF ts = <<>> THEN <<>>
    ELSE IF TabPredicate(tab, Head(ts), day)
         THEN <<Head(ts)>> \o FilterTab(Tail(ts), tab, day)
         ELSE FilterTab(Tail(ts), tab, day)

getFilteredTasks(ts, tab, day) ==
    IF tab \in Tabs \ {"all"} THEN FilterTab(ts, tab, day) ELSE ts

(***************************************************************************)
(* IEEE 754 binary64 arithmetic, as far as the Dashboard uses it.  A       *)
(* positive double is [exp, mant]: mant is its 53 significand bits, most   *)
(* significant first (mant[1] = 1), and its value is 1.mant[2..53] * 2^exp.*)
(***************************************************************************)
RECURSIVE LeadPos(_, _)
\* position after the binary point of the first 1 bit of r/t, for 0 < r < t
LeadPos(r, t) == IF 2 * r >= t THEN 1 ELSE 1 + LeadPos(2 * r, t)

RECURSIVE DivRem(_, _, _)
\* remainder of the long division r/t after n quotient bits
DivRem(r, t, n) ==
    IF n = 0 THEN r
    ELSE IF 2 * r >= t THEN DivRem(2 * r - t, t, n - 1) ELSE DivRem(2 * r, t, n - 1)

RECURSIVE DivBits(_, _, _)
\* the next n quotient bits of the long division r/t
DivBits(r, t, n) ==
    IF n = 0 THEN <<>>
    ELSE IF 2 * r >= t THEN <<1>> \o DivBits(2 * r - t, t, n - 1)
         ELSE <<0>> \o DivBits(2 * r, t, n - 1)

RECURSIVE AddBits(_, _, _, _)
\* bits 1..i of a + b (equally long, most significant first), given the carry into bit i
AddBits(a, b, i, carry) ==
    IF i = 0 THEN <<>>
    ELSE LET sum == a[i] + b[i] + carry
         IN  IF sum < 2 THEN AddBits(a, b, i - 1, 0) \o <<sum>>
             ELSE AddBits(a, b, i - 1, 1) \o <<sum - 2>>

Zeros(n) == [i \in 1..n |-> 0]

\* round to nearest, ties to even: the 53 leading bits, the bit after them
\* (guard) and whether anything non-zero follows (sticky)
RoundNearestEven(e, bits, guard, sticky) ==
    IF guard = 1 /\ (sticky \/ bits[53] = 1)
    THEN IF \A i \in 1..53 : bits[i] = 1
         THEN [exp |-> e + 1, mant |-> <<1>> \o Zeros(52)]
         ELSE [exp |-> e, mant |-> AddBits(bits, Zeros(52) \o <<1>>, 53, 0)]
    ELSE [exp |-> e, mant |-> bits]

\* the double c / t for integers 0 < c <= t
DoubleDiv(c, t) ==
    IF c = t THEN [exp |-> 0, mant |-> <<1>> \o Zeros(52)]
    ELSE LET k == LeadPos(c, t)
             r0 == DivRem(c, t, k - 1)
             bits == DivBits(r0, t, 53)
             r == DivRem(r0, t, 53)
             guard == IF 2 * r >= t THEN 1 ELSE 0
             rest == IF 2 * r >= t THEN 2 * r - t ELSE 2 * r
         IN  RoundNearestEven(0 - k, bits, guard, rest # 0)

\* the double x * 100: 100 * m = 64 m + 32 m + 4 m on 60 bits, then rounded
DoubleTimes100(x) ==
    LET m == x.mant
        a == Zeros(1) \o m \o Zeros(6)
        b == Zeros(2) \o m \o Zeros(5)
        c == Zeros(5) \o m \o Zeros(2)
        p == AddBits(AddBits(a, b, 60, 0), c, 60, 0)
        lead == IF p[1] = 1 THEN 1 ELSE 2
        bits == SubSeq(p, lead, lead + 52)
        guard == p[lead + 53]
        sticky == \E i \in (lead + 54)..60 : p[i] = 1
    IN  RoundNearestEven(x.exp + 8 - lead, bits, guard, sticky)

RECURSIVE BitsToNat(_)
BitsToNat(bits) ==
    IF bits = <<>> THEN 0
    ELSE 2 * BitsToNat(SubSeq(bits, 1, Len(bits) - 1)) + bits[Len(bits)]

\* Math.round of a positive double below 2^52: the nearest integer, a tie
\* going up, that is the integer part plus the first fraction bit
MathRound(x) ==
    IF x.exp < 0 - 1 THEN 0
    ELSE IF x.exp = 0 - 1 THEN 1
    ELSE BitsToNat(SubSeq(x.mant, 1, x.exp + 1)) + x.mant[x.exp + 2]

(***************************************************************************)
(* Dashboard aggregator (Dashboard.jsx)                                    *)
(***************************************************************************)
\* tasks.filter(t => t.status === st).length
CountStatus(ts, st) == Cardinality({i \in 1..Len(ts) : ts[i].status = st})

\* a faulty count: completed tasks are counted too
CountPriorityAnyStatus(ts, p) ==
    Cardinality({i \in 1..Len(ts) : ts[i].priority = p})

\* tasks.filter(t => t.priority === p && t.status !== 'completed').length
CountPriority(ts, p) ==
    Cardinality({i \in 1..Len(ts) : ts[i].priority = p /\ ts[i].status # "completed"})

\* totalTasks > 0 ? Math.round((completedTasks / totalTasks) * 100) : 0
completionRate(completedTasks, totalTasks) ==
    IF totalTasks > 0
    THEN IF completedTasks = 0 THEN 0
         ELSE MathRound(DoubleTimes100(DoubleDiv(completedTasks, totalTasks)))
    ELSE 0

\* t.created_at.split('T')[0] of a timestamp <<date, time of day>>
SplitT(stamp) == stamp[1]

\* a count of the completed tasks whatever their creation day
completedTodayAnyDay(ts, day) ==
    Cardinality({i \in 1..Len(ts) : ts[i].status = "completed"})

\* tasks.filter(t => t.status === 'completed' && t.created_at
\*                   && t.created_at.split('T')[0] === today).length
completedToday(ts, day) ==
    Cardinality({i \in 1..Len(ts) :
        /\ ts[i].status = "completed"
        /\ ts[i].created_at # NoDate
        /\ SplitT(ts[i].created_at) = ToISODate(day)})

\* a Pending Tasks card that shows the tasks to do only
PendingTasksTodoOnly(ts) == CountStatus(ts, "todo")

\* the Pending Tasks card: {todoTasks + inProgressTasks}
PendingTasks(ts) == CountStatus(ts, "todo") + CountStatus(ts, "in_progress")

Dashboard(ts, day) ==
    [totalTasks |-> Len(ts),
     completedTasks |-> CountStatus(ts, "completed"),
     todoTasks |-> CountStatus(ts, "todo"),
     inProgressTasks |-> CountStatus(ts, "in_progress"),
     pendingTasks |-> PendingTasks(ts),
     completionRate |-> completionRate(CountStatus(ts, "completed"), Len(ts)),
     urgentCount |-> CountPriority(ts, "urgent"),
     highCount |-> CountPriority(ts, "high"),
     mediumCount |-> CountPriority(ts, "medium"),
     lowCount |-> CountPriority(ts, "low"),
     completedToday |-> completedToday(ts, day)]

(***************************************************************************)
(* Users, tokens, local storage, transcript                                *)
(***************************************************************************)
Users == {"alice", "bob"}
TokenOf == [u \in Users |-> IF u = "alice" THEN "jwt-alice" ELSE "jwt-bob"]
UserOf(tok) == CHOOSE u \in Users : TokenOf[u] = tok

Inputs == {"", "  ", "add milk"}
\* String.prototype.trim
Trim(str) == IF str = "  " THEN "" ELSE str

\* JSON.stringify(darkMode), and the string a boolean is stored as by setItem
Stringify(b) == IF b THEN "true" ELSE "false"
\* a value is truthy: neither null nor ''
Truthy(v) == v # Null /\ v # ""

Msg(role, content) == [role |-> role, content |-> content]
InitialGreeting == Msg("assistant", <<"Hi! I'm your AI todo assistant. Try saying: ...">>)
LogoutGreeting == Msg("assistant", <<"Hi! I'm your AI todo assistant.">>)
LoginGreeting(name) == Msg("assistant", <<"Hi", name, "I'm your AI todo assistant.">>)
ChatError == Msg("assistant", <<"Error: Could not process request.">>)
ChatError_v2 == Msg("assistant", <<"Sorry, something went wrong.">>)
TaskDeleted == Msg("assistant", <<"Task deleted">>)
DeleteError == Msg("assistant", <<"Error deleting task">>)

(***************************************************************************)
(* Requests in flight.  phase: "sent" (on its way to the backend), "ok" or *)
(* "err" (answered, the answer on its way back).                           *)
(***************************************************************************)
Request(kind, tok, id, text, tail) ==
    [kind |-> kind, tok |-> tok, id |-> id, text |-> text, phase |-> "sent",
     tasksResp |-> <<>>, textResp |-> <<>>, tail |-> tail, orphan |-> FALSE]

\* axios.get(`${API_URL}/api/tasks`, {headers: {Authorization: `Bearer ${authToken}`}})
TasksRequest(authToken, tail) == Request("tasks", authToken, 0, "", tail)

Without(i) == SubSeq(net, 1, i - 1) \o SubSeq(net, i + 1, Len(net))
\* the Login view unmounts: what its pending submits still set is dropped
Orphaned(reqs) ==
    [j \in DOMAIN reqs |-> IF reqs[j].kind = "login" THEN [reqs[j] EXCEPT !.orphan = TRUE]
                           ELSE reqs[j]]
HasKind(i, kind) == i \in DOMAIN net /\ net[i].kind = kind
Resolves(i, kind) == HasKind(i, kind) /\ net[i].phase = "ok"
Rejects(i, kind) == HasKind(i, kind)
CanIssue == Len(net) < MaxInFlight

(***************************************************************************)
(* Backend (documented in README.md; its code is not part of the sources)  *)
(***************************************************************************)
IdsOf(ts) == {ts[i].id : i \in 1..Len(ts)}

RECURSIVE RemoveId(_, _)
RemoveId(ts, id) ==
    IF ts = <<>> THEN <<>>
    ELSE IF Head(ts).id = id THEN RemoveId(Tail(ts), id)
         ELSE <<Head(ts)>> \o RemoveId(Tail(ts), id)

CompleteId(ts, id) ==
    [i \in 1..Len(ts) |-> IF ts[i].id = id THEN [ts[i] EXCEPT !.status = "completed"]
                          ELSE ts[i]]

Answer(i, phase, tasksResp, textResp) ==
    net' = [net EXCEPT ![i].phase = phase, ![i].tasksResp = tasksResp,
                       ![i].textResp = textResp]

ServeVerify(i) ==
    /\ HasKind(i, "verify") /\ net[i].phase = "sent"
    /\ IF net[i].tok \in {TokenOf[u] : u \in Users}
       THEN Answer(i, "ok", <<>>, <<>>)
       ELSE Answer(i, "err", <<>>, <<>>)
    /\ UNCHANGED <<server, nextId>>

ServeLogin(i) ==
    /\ HasKind(i, "login") /\ net[i].phase = "sent"
    /\ Answer(i, "ok", <<>>, <<TokenOf[net[i].text], net[i].text>>)
    /\ UNCHANGED <<server, nextId>>

ServeTasks(i) ==
    /\ HasKind(i, "tasks") /\ net[i].phase = "sent"
    /\ IF net[i].tok \in {TokenOf[u] : u \in Users}
       THEN Answer(i, "ok", server[UserOf(net[i].tok)], <<>>)
       ELSE Answer(i, "err", <<>>, <<>>)
    /\ UNCHANGED <<server, nextId>>

ServeChat(i) ==
    /\ HasKind(i, "chat") /\ net[i].phase = "sent"
    /\ LET u == UserOf(net[i].tok)
       IN  /\ Answer(i, "ok", <<>>, <<"reply to", u>>)
           /\ \/ UNCHANGED <<server, nextId>>
              \/ /\ nextId <= MaxId
                 /\ server' = [server EXCEPT ![u] = Append(@,
                        Task(nextId, "todo", "medium", NoDate, <<ToISODate(now), "T10:00">>))]
                 /\ nextId' = nextId + 1

ServeDelete(i) ==
    /\ HasKind(i, "delete") /\ net[i].phase = "sent"
    /\ LET u == UserOf(net[i].tok)
       IN  IF net[i].id \in IdsOf(server[u])
           THEN /\ Answer(i, "ok", <<>>, <<>>)
                /\ server' = [server EXCEPT ![u] = RemoveId(@, net[i].id)]
           ELSE /\ Answer(i, "err", <<>>, <<>>)
                /\ UNCHANGED server
    /\ UNCHANGED nextId

ServePatch(i) ==
    /\ HasKind(i, "patch") /\ net[i].phase = "sent"
    /\ LET u == UserOf(net[i].tok)
       IN  IF net[i].id \in IdsOf(server[u])
           THEN /\ Answer(i, "ok", <<>>, <<>>)
                /\ server' = [server EXCEPT ![u] = CompleteId(@, net[i].id)]
           ELSE /\ Answer(i, "err", <<>>, <<>>)
                /\ UNCHANGED server
    /\ UNCHANGED nextId

memory == <<isAuthenticated, username, token, darkMode, messages, input, tasks,
            loading, sidebarOpen, activeTab, refreshKey>>
\* what no handler of the App shell assigns
views == <<variant, now, filteredTasks, stats, isSignup, formData, error, pageSize,
           currentPage, pages>>
\* what the handlers of the App shell leave alone, login and logout apart
fixed == <<views, loggedOut>>

Serve ==
    /\ \E i \in DOMAIN net :
          \/ ServeVerify(i)
          \/ ServeLogin(i)
          \/ ServeTasks(i)
          \/ ServeChat(i)
          \/ ServeDelete(i)
          \/ ServePatch(i)
    /\ UNCHANGED <<memory, fixed, mounted, localStorage, loginLoading, tasksFrom, sessionOk>>

(***************************************************************************)
(* Login view (unnamed/part_000): the part the App shell depends on        *)
(***************************************************************************)
\* what the Login view does not assign
loginFixed == <<variant, now, filteredTasks, stats, pageSize, currentPage, pages, loggedOut>>

\* handleSubmit in login mode with a form that passes the validation, up to
\* the POST /api/login; the submit button is disabled while loading
LoginSubmit(u) ==
    /\ mounted /\ ~isAuthenticated /\ ~loginLoading /\ CanIssue
    /\ error' = ""
    /\ loginLoading' = TRUE
    /\ net' = Append(net, Request("login", "", 0, u, FALSE))
    /\ UNCHANGED <<memory, loginFixed, isSignup, formData, mounted, localStorage, server,
                   nextId, tasksFrom, sessionOk>>

SignupFailed == "Signup failed. Username might already exist."
InvalidCredentials == "Invalid credentials"

\* the message of the catch block: err.response.data.detail if the backend
\* sent one, else the default of the mode the form was submitted in
ErrorOf(req) ==
    IF req.phase = "err" /\ req.textResp # <<>> THEN req.textResp[1]
    ELSE IF req.kind = "signup" \/ req.tail THEN SignupFailed
    ELSE InvalidCredentials

\* catch / finally of handleSubmit: either POST failed; the setters of an
\* unmounted Login view do nothing
LoginFail(i) ==
    /\ Rejects(i, "login") \/ Rejects(i, "signup")
    /\ net' = Without(i)
    /\ loginLoading' = (IF net[i].orphan THEN loginLoading ELSE FALSE)
    /\ error' = (IF net[i].orphan THEN error ELSE ErrorOf(net[i]))
    /\ UNCHANGED <<memory, loginFixed, isSignup, formData, mounted, localStorage, server,
                   nextId, tasksFrom, sessionOk>>

\* localStorage.setItem('token', token); localStorage.setItem('username', username)
StoreSession(tok, name) ==
    localStorage' = [localStorage EXCEPT !.token = tok, !.username = name]

(***************************************************************************)
(* Login view, validated variant (unnamed/part_000 lines 7-209): the form  *)
(* and its validation.  A field's value is a sequence of characters.       *)
(***************************************************************************)
\* String.prototype.trim on a sequence of characters
RECURSIVE TrimStart(_)
TrimStart(str) ==
    IF str # <<>> /\ Head(str) = " " THEN TrimStart(Tail(str)) ELSE str

RECURSIVE TrimEnd(_)
TrimEnd(str) ==
    IF str # <<>> /\ str[Len(str)] = " " THEN TrimEnd(SubSeq(str, 1, Len(str) - 1)) ELSE str

TrimChars(str) == TrimEnd(TrimStart(str))

\* a pattern without the dot: /^[^\s@]+@[^\s@]+$/
isValidEmailNoDot(email) ==
    \E i \in 1..Len(email) :
        /\ 1 < i /\ i < Len(email)
        /\ email[i] = "@"
        /\ \A k \in (1..Len(email)) \ {i} : email[k] \notin {" ", "@"}

\* /^[^\s@]+@[^\s@]+\.[^\s@]+$/.test(email): the string splits into a
\* non-empty run of [^\s@], '@', a non-empty run, '.', a non-empty run
isValidEmail(email) ==
    \E i \in 1..Len(email) : \E j \in 1..Len(email) :
        /\ 1 < i /\ i + 1 < j /\ j < Len(email)
        /\ email[i] = "@"
        /\ email[j] = "."
        /\ \A k \in (1..Len(email)) \ {i, j} : email[k] \notin {" ", "@"}

\* the validation of handleSubmit: the error of the first check that fails,
\* '' if none does
Validation(form, signup) ==
    IF TrimChars(form.username) = <<>> THEN "Username is required"
    ELSE IF Len(form.username) < 3 THEN "Username must be at least 3 characters"
    ELSE IF signup /\ TrimChars(form.email) = <<>> THEN "Email is required"
    ELSE IF signup /\ ~isValidEmail(form.email) THEN "Please enter a valid email address"
    ELSE IF form.password = <<>> THEN "Password is required"
    ELSE IF Len(form.password) < 4 THEN "Password must be at least 4 characters"
    ELSE ""

\* handleSubmit up to its first await: setError(''), the validation, then
\* setLoading(true) and the POST /api/signup or /api/login
handleSubmit ==
    /\ mounted /\ ~isAuthenticated /\ ~loginLoading
    /\ IF Validation(formData, isSignup) # ""
       THEN /\ error' = Validation(formData, isSignup)
            /\ UNCHANGED <<loginLoading, net>>
       ELSE /\ CanIssue
            /\ error' = ""
            /\ loginLoading' = TRUE
            /\ net' = Append(net, Request(IF isSignup THEN "signup" ELSE "login", "", 0,
                                          formData.username, FALSE))
    /\ UNCHANGED <<memory, variant, now, filteredTasks, stats, isSignup, formData,
                   pageSize, currentPage, pages, mounted, localStorage, server, nextId,
                   clicks, tasksFrom, sessionOk, loggedOut>>

\* the Login and Sign Up tab buttons: the mode is set, form and error cleared
handleTabSwitch(signup) ==
    /\ mounted /\ ~isAuthenticated
    /\ isSignup' = signup
    /\ formData' = [username |-> <<>>, email |-> <<>>, password |-> <<>>]
    /\ error' = ""
    /\ UNCHANGED <<memory, loginFixed, mounted, localStorage, loginLoading, net, server,
                   nextId, tasksFrom, sessionOk>>

\* a username as the characters typed into the form
Spell(u) == IF u = "alice" THEN <<"a", "l", "i", "c", "e">> ELSE <<"b", "o", "b">>
Account(chars) == CHOOSE u \in Users : Spell(u) = chars

\* the backend answers a POST of the form: POST /api/signup with 2xx, POST
\* /api/login with {token, username}, or either with an error that carries a
\* detail or none
ServeForm(i) ==
    /\ HasKind(i, "signup") \/ HasKind(i, "login")
    /\ net[i].phase = "sent"
    /\ \/ /\ net[i].kind = "signup"
          /\ Answer(i, "ok", <<>>, <<>>)
       \/ /\ net[i].kind = "login"
          /\ Answer(i, "ok", <<>>, <<TokenOf[Account(net[i].text)], Account(net[i].text)>>)
       \/ \E detail \in {<<>>, <<"Username already exists">>} :
              Answer(i, "err", <<>>, detail)
    /\ UNCHANGED <<memory, fixed, mounted, localStorage, loginLoading, server, nextId,
                   tasksFrom, sessionOk>>

\* a signup that stores the session as soon as the account exists
signupOkStoring(i) ==
    /\ Resolves(i, "signup")
    /\ net' = Without(i)
    /\ StoreSession(TokenOf[Account(net[i].text)], Account(net[i].text))
    /\ loginLoading' = FALSE
    /\ UNCHANGED <<memory, fixed, mounted, server, nextId, tasksFrom, sessionOk>>

\* handleSubmit in signup mode, the POST /api/signup answered: the POST
\* /api/login with the username and password of the submit
signupOk(i) ==
    /\ Resolves(i, "signup")
    /\ net' = Append(Without(i), [Request("login", "", 0, net[i].text, TRUE)
                                     EXCEPT !.orphan = net[i].orphan])
    /\ UNCHANGED <<memory, fixed, mounted, localStorage, loginLoading, server, nextId,
                   tasksFrom, sessionOk>>

(***************************************************************************)
(* App shell, variant 1 (App.jsx lines 9-274)                              *)
(***************************************************************************)
\* a mount effect that tests the token only
Mount_v1TokenOnly ==
    /\ variant = 1 /\ ~mounted
    /\ mounted' = TRUE
    /\ darkMode' = (IF Truthy(localStorage.darkMode)
                    THEN localStorage.darkMode = "true" ELSE FALSE)
    /\ localStorage' = [localStorage EXCEPT !.darkMode = Stringify(darkMode')]
    /\ IF Truthy(localStorage.token)
       THEN net' = Append(net, Request("verify", localStorage.token, 0,
                                       localStorage.username, FALSE))
       ELSE UNCHANGED net
    /\ UNCHANGED <<isAuthenticated, username, token, messages, input, tasks, loading,
                   sidebarOpen, activeTab, refreshKey>>
    /\ UNCHANGED <<fixed, loginLoading, server, nextId, tasksFrom, sessionOk>>

\* useState initialisers and mount effects
Mount_v1 ==
    /\ variant = 1 /\ ~mounted
    /\ mounted' = TRUE
    /\ darkMode' = (IF Truthy(localStorage.darkMode)
                    THEN localStorage.darkMode = "true" ELSE FALSE)
    /\ localStorage' = [localStorage EXCEPT !.darkMode = Stringify(darkMode')]
    /\ IF Truthy(localStorage.token) /\ Truthy(localStorage.username)
       THEN net' = Append(net, Request("verify", localStorage.token, 0,
                                       localStorage.username, FALSE))
       ELSE UNCHANGED net
    /\ UNCHANGED <<isAuthenticated, username, token, messages, input, tasks, loading,
                   sidebarOpen, activeTab, refreshKey>>
    /\ UNCHANGED <<fixed, loginLoading, server, nextId, tasksFrom, sessionOk>>

\* verifyToken, the request answered
verifyTokenOk(i) ==
    /\ variant = 1 /\ Resolves(i, "verify")
    /\ token' = net[i].tok
    /\ username' = net[i].text
    /\ isAuthenticated' = TRUE
    /\ net' = Append(Orphaned(Without(i)), TasksRequest(net[i].tok, FALSE))
    /\ loginLoading' = FALSE
    /\ sessionOk' = (Len(net) = 1)
    /\ UNCHANGED <<darkMode, messages, input, tasks, loading, sidebarOpen, activeTab,
                   refreshKey>>
    /\ UNCHANGED <<fixed, mounted, localStorage, server, nextId, tasksFrom>>

\* verifyToken, the request failed
verifyTokenFail(i) ==
    /\ variant = 1 /\ Rejects(i, "verify")
    /\ net' = Without(i)
    /\ localStorage' = [localStorage EXCEPT !.token = Null, !.username = Null]
    /\ isAuthenticated' = FALSE
    /\ sessionOk' = FALSE
    /\ UNCHANGED <<username, token, darkMode, messages, input, tasks, loading,
                   sidebarOpen, activeTab, refreshKey>>
    /\ UNCHANGED <<fixed, mounted, loginLoading, server, nextId, tasksFrom>>

\* the login answered: Login stores the session and calls onLoginSuccess
handleLoginSuccess_v1(i) ==
    /\ variant = 1 /\ Resolves(i, "login")
    /\ LET newToken == net[i].textResp[1]
           newUsername == net[i].textResp[2]
       IN  /\ StoreSession(newToken, newUsername)
           /\ token' = newToken
           /\ username' = newUsername
           /\ isAuthenticated' = TRUE
           /\ net' = Append(Orphaned(Without(i)), TasksRequest(newToken, FALSE))
    /\ loginLoading' = FALSE
    /\ sessionOk' = (Len(net) = 1)
    /\ UNCHANGED <<darkMode, messages, input, tasks, loading, sidebarOpen, activeTab,
                   refreshKey>>
    /\ UNCHANGED <<views, mounted, server, nextId, tasksFrom>>
    /\ loggedOut' = FALSE

\* a logout that also aborts the pending requests (the code has no AbortController)
handleLogout_v1Aborting ==
    /\ variant = 1 /\ isAuthenticated
    /\ localStorage' = [localStorage EXCEPT !.token = Null, !.username = Null]
    /\ token' = ""
    /\ username' = ""
    /\ isAuthenticated' = FALSE
    /\ tasks' = <<>>
    /\ messages' = <<LogoutGreeting>>
    /\ tasksFrom' = ""
    /\ sessionOk' = FALSE
    /\ net' = <<>>
    /\ UNCHANGED <<darkMode, input, loading, sidebarOpen, activeTab, refreshKey>>
    /\ UNCHANGED <<views, mounted, loginLoading, server, nextId>>
    /\ loggedOut' = TRUE

\* handleLogout: removeItem twice, the setters, the transcript reset
handleLogout_v1 ==
    /\ variant = 1 /\ isAuthenticated
    /\ localStorage' = [localStorage EXCEPT !.token = Null, !.username = Null]
    /\ token' = ""
    /\ username' = ""
    /\ isAuthenticated' = FALSE
    /\ tasks' = <<>>
    /\ messages' = <<LogoutGreeting>>
    /\ tasksFrom' = ""
    /\ sessionOk' = FALSE
    /\ UNCHANGED <<darkMode, input, loading, sidebarOpen, activeTab, refreshKey>>
    /\ UNCHANGED <<views, mounted, loginLoading, net, server, nextId>>
    /\ loggedOut' = TRUE

\* toggleDarkMode and the darkMode effect
toggleDarkMode_v1 ==
    /\ variant = 1 /\ isAuthenticated
    /\ darkMode' = ~darkMode
    /\ localStorage' = [localStorage EXCEPT !.darkMode = Stringify(darkMode')]
    /\ UNCHANGED <<isAuthenticated, username, token, messages, input, tasks, loading,
                   sidebarOpen, activeTab, refreshKey>>
    /\ UNCHANGED <<fixed, mounted, loginLoading, net, server, nextId, tasksFrom, sessionOk>>

\* onChange of the chat input (disabled while loading)
setInput_v1(v) ==
    /\ variant = 1 /\ isAuthenticated /\ ~loading
    /\ input' = v
    /\ UNCHANGED <<isAuthenticated, username, token, darkMode, messages, tasks, loading,
                   sidebarOpen, activeTab, refreshKey>>
    /\ UNCHANGED <<fixed, mounted, localStorage, loginLoading, net, server, nextId,
                   tasksFrom, sessionOk>>

\* the Refresh button: loadTasks() with the token of the render
loadTasks ==
    /\ variant = 1 /\ isAuthenticated /\ CanIssue
    /\ net' = Append(net, TasksRequest(token, FALSE))
    /\ UNCHANGED <<memory, fixed, mounted, localStorage, loginLoading, server, nextId,
                   tasksFrom, sessionOk>>

\* a session's response is handled in that session
InSession(i) == isAuthenticated /\ net[i].tok = token

\* a guarded assignment: a response of another session's request is ignored
setTasksIfCurrent(old, payload, tok) == IF tok = token THEN payload ELSE old

\* a reconciling assignment: the payload is appended to the list
setTasksMerging(old, payload, tok) == old \o payload

\* setTasks(response.data.tasks): the response of the request made with tok
\* replaces the list old
setTasks(old, payload, tok) == payload

\* loadTasks, the request answered
loadTasksOk(i) ==
    /\ variant = 1 /\ Resolves(i, "tasks")
    /\ tasks' = setTasks(tasks, net[i].tasksResp, net[i].tok)
    /\ net' = Without(i)
    /\ tasksFrom' = net[i].tok
    /\ sessionOk' = (sessionOk /\ InSession(i))
    /\ UNCHANGED <<isAuthenticated, username, token, darkMode, messages, input, loading,
                   sidebarOpen, activeTab, refreshKey>>
    /\ UNCHANGED <<fixed, mounted, localStorage, loginLoading, server, nextId>>

\* loadTasks, the request failed: console.error only
loadTasksFail(i) ==
    /\ variant = 1 /\ Rejects(i, "tasks")
    /\ net' = Without(i)
    /\ sessionOk' = FALSE
    /\ UNCHANGED <<memory, fixed, mounted, localStorage, loginLoading, server, nextId,
                   tasksFrom>>

\* sendMessage up to the POST /api/chat
sendMessage_v1 ==
    /\ variant = 1 /\ isAuthenticated
    /\ IF Trim(input) = "" \/ loading
       THEN UNCHANGED <<messages, input, loading, net>>
       ELSE /\ CanIssue /\ Len(messages) < MaxMsgs
            /\ messages' = Append(messages, Msg("user", <<Trim(input)>>))
            /\ input' = ""
            /\ loading' = TRUE
            /\ net' = Append(net, Request("chat", token, 0, Trim(input), FALSE))
    /\ UNCHANGED <<isAuthenticated, username, token, darkMode, tasks, sidebarOpen,
                   activeTab, refreshKey>>
    /\ UNCHANGED <<fixed, mounted, localStorage, loginLoading, server, nextId, tasksFrom,
                   sessionOk>>

\* sendMessage, the request answered: the reply, loadTasks(), finally
sendMessageOk_v1(i) ==
    /\ variant = 1 /\ Resolves(i, "chat")
    /\ messages' = Append(messages, Msg("assistant", net[i].textResp))
    /\ net' = Append(Without(i), TasksRequest(net[i].tok, FALSE))
    /\ loading' = FALSE
    /\ sessionOk' = (sessionOk /\ InSession(i))
    /\ UNCHANGED <<isAuthenticated, username, token, darkMode, input, tasks, sidebarOpen,
                   activeTab, refreshKey>>
    /\ UNCHANGED <<fixed, mounted, localStorage, loginLoading, server, nextId, tasksFrom>>

\* a catch block that also calls loadTasks()
sendMessageFail_v1Refetching(i) ==
    /\ variant = 1 /\ Rejects(i, "chat")
    /\ messages' = Append(messages, ChatError)
    /\ net' = Append(Without(i), TasksRequest(net[i].tok, FALSE))
    /\ loading' = FALSE
    /\ sessionOk' = FALSE
    /\ UNCHANGED <<isAuthenticated, username, token, darkMode, input, tasks, sidebarOpen,
                   activeTab, refreshKey>>
    /\ UNCHANGED <<fixed, mounted, localStorage, loginLoading, server, nextId, tasksFrom>>

\* a sendMessage without its finally block
sendMessageFail_v1KeepingLoading(i) ==
    /\ variant = 1 /\ Rejects(i, "chat")
    /\ messages' = Append(messages, ChatError)
    /\ net' = Without(i)
    /\ sessionOk' = FALSE
    /\ UNCHANGED <<isAuthenticated, username, token, darkMode, input, tasks, loading,
                   sidebarOpen, activeTab, refreshKey>>
    /\ UNCHANGED <<fixed, mounted, localStorage, loginLoading, server, nextId, tasksFrom>>

\* sendMessage, the request failed: catch, finally
sendMessageFail_v1(i) ==
    /\ variant = 1 /\ Rejects(i, "chat")
    /\ messages' = Append(messages, ChatError)
    /\ net' = Without(i)
    /\ loading' = FALSE
    /\ sessionOk' = FALSE
    /\ UNCHANGED <<isAuthenticated, username, token, darkMode, input, tasks, sidebarOpen,
                   activeTab, refreshKey>>
    /\ UNCHANGED <<fixed, mounted, localStorage, loginLoading, server, nextId, tasksFrom>>

\* deleteTask up to the DELETE /api/tasks/{id}; window.confirm may be declined
deleteTask_v1(taskId, confirm) ==
    /\ variant = 1 /\ isAuthenticated /\ taskId \in IdsOf(tasks)
    /\ IF ~confirm THEN UNCHANGED net
       ELSE /\ CanIssue /\ Len(messages) < MaxMsgs
            /\ net' = Append(net, Request("delete", token, taskId, "", FALSE))
    /\ UNCHANGED <<memory, fixed, mounted, localStorage, loginLoading, server, nextId,
                   tasksFrom, sessionOk>>

\* deleteTask, the request answered
deleteTaskOk_v1(i) ==
    /\ variant = 1 /\ Resolves(i, "delete")
    /\ net' = Append(Without(i), TasksRequest(net[i].tok, FALSE))
    /\ messages' = Append(messages, TaskDeleted)
    /\ sessionOk' = (sessionOk /\ InSession(i))
    /\ UNCHANGED <<isAuthenticated, username, token, darkMode, input, tasks, loading,
                   sidebarOpen, activeTab, refreshKey>>
    /\ UNCHANGED <<fixed, mounted, localStorage, loginLoading, server, nextId, tasksFrom>>

\* deleteTask, the request failed
deleteTaskFail_v1(i) ==
    /\ variant = 1 /\ Rejects(i, "delete")
    /\ net' = Without(i)
    /\ messages' = Append(messages, DeleteError)
    /\ sessionOk' = FALSE
    /\ UNCHANGED <<isAuthenticated, username, token, darkMode, input, tasks, loading,
                   sidebarOpen, activeTab, refreshKey>>
    /\ UNCHANGED <<fixed, mounted, localStorage, loginLoading, server, nextId, tasksFrom>>

(***************************************************************************)
(* App shell, variant 2 (App.jsx lines 285-607)                            *)
(***************************************************************************)
\* the mount effect; the refreshKey effect of the first render sees token ''
Mount_v2 ==
    /\ variant = 2 /\ ~mounted
    /\ mounted' = TRUE
    /\ IF Truthy(localStorage.token) /\ Truthy(localStorage.username)
       THEN /\ token' = localStorage.token
            /\ username' = localStorage.username
            /\ isAuthenticated' = TRUE
            /\ net' = Append(net, TasksRequest(localStorage.token, FALSE))
            /\ sessionOk' = TRUE
       ELSE UNCHANGED <<token, username, isAuthenticated, net, sessionOk>>
    /\ darkMode' = (localStorage.darkMode = "true")
    /\ UNCHANGED <<messages, input, tasks, loading, sidebarOpen, activeTab, refreshKey>>
    /\ UNCHANGED <<fixed, localStorage, loginLoading, server, nextId, tasksFrom>>

handleLoginSuccess_v2(i) ==
    /\ variant = 2 /\ Resolves(i, "login")
    /\ LET newToken == net[i].textResp[1]
           newUsername == net[i].textResp[2]
       IN  /\ StoreSession(newToken, newUsername)
           /\ token' = newToken
           /\ username' = newUsername
           /\ isAuthenticated' = TRUE
           /\ net' = Append(Orphaned(Without(i)), TasksRequest(newToken, FALSE))
           /\ messages' = <<LoginGreeting(newUsername)>>
    /\ loginLoading' = FALSE
    /\ sessionOk' = (Len(net) = 1)
    /\ UNCHANGED <<darkMode, input, tasks, loading, sidebarOpen, activeTab, refreshKey>>
    /\ UNCHANGED <<views, mounted, server, nextId, tasksFrom>>
    /\ loggedOut' = FALSE

\* a logout that also goes back to the first tab
handleLogout_v2ResettingTab ==
    /\ variant = 2 /\ isAuthenticated
    /\ localStorage' = [localStorage EXCEPT !.token = Null, !.username = Null]
    /\ isAuthenticated' = FALSE
    /\ token' = ""
    /\ username' = ""
    /\ messages' = <<>>
    /\ tasks' = <<>>
    /\ activeTab' = "all"
    /\ tasksFrom' = ""
    /\ sessionOk' = FALSE
    /\ UNCHANGED <<darkMode, input, loading, sidebarOpen, refreshKey>>
    /\ UNCHANGED <<views, mounted, loginLoading, net, server, nextId>>
    /\ loggedOut' = TRUE

\* handleLogout: removeItem twice, the setters
handleLogout_v2 ==
    /\ variant = 2 /\ isAuthenticated
    /\ localStorage' = [localStorage EXCEPT !.token = Null, !.username = Null]
    /\ isAuthenticated' = FALSE
    /\ token' = ""
    /\ username' = ""
    /\ messages' = <<>>
    /\ tasks' = <<>>
    /\ tasksFrom' = ""
    /\ sessionOk' = FALSE
    /\ UNCHANGED <<darkMode, input, loading, sidebarOpen, activeTab, refreshKey>>
    /\ UNCHANGED <<views, mounted, loginLoading, net, server, nextId>>
    /\ loggedOut' = TRUE

\* a toggle that does not write the flag
toggleDarkMode_v2NotStoring ==
    /\ variant = 2 /\ isAuthenticated
    /\ darkMode' = ~darkMode
    /\ UNCHANGED <<isAuthenticated, username, token, messages, input, tasks, loading,
                   sidebarOpen, activeTab, refreshKey>>
    /\ UNCHANGED <<fixed, mounted, localStorage, loginLoading, net, server, nextId,
                   tasksFrom, sessionOk>>

\* toggleDarkMode: setDarkMode(newMode); localStorage.setItem('darkMode', newMode)
toggleDarkMode_v2 ==
    /\ variant = 2 /\ isAuthenticated
    /\ darkMode' = ~darkMode
    /\ localStorage' = [localStorage EXCEPT !.darkMode = Stringify(~darkMode)]
    /\ UNCHANGED <<isAuthenticated, username, token, messages, input, tasks, loading,
                   sidebarOpen, activeTab, refreshKey>>
    /\ UNCHANGED <<fixed, mounted, loginLoading, net, server, nextId, tasksFrom, sessionOk>>

toggleSidebar ==
    /\ variant = 2 /\ isAuthenticated
    /\ sidebarOpen' = ~sidebarOpen
    /\ UNCHANGED <<isAuthenticated, username, token, darkMode, messages, input, tasks,
                   loading, activeTab, refreshKey>>
    /\ UNCHANGED <<fixed, mounted, localStorage, loginLoading, net, server, nextId,
                   tasksFrom, sessionOk>>

\* onClick of a sidebar tab
setActiveTab(tab) ==
    /\ variant = 2 /\ isAuthenticated
    /\ activeTab' = tab
    /\ UNCHANGED <<isAuthenticated, username, token, darkMode, messages, input, tasks,
                   loading, sidebarOpen, refreshKey>>
    /\ UNCHANGED <<fixed, mounted, localStorage, loginLoading, net, server, nextId,
                   tasksFrom, sessionOk>>

\* onChange of the chat input (disabled while loading)
setInput_v2(v) ==
    /\ variant = 2 /\ isAuthenticated /\ ~loading
    /\ input' = v
    /\ UNCHANGED <<isAuthenticated, username, token, darkMode, messages, tasks, loading,
                   sidebarOpen, activeTab, refreshKey>>
    /\ UNCHANGED <<fixed, mounted, localStorage, loginLoading, net, server, nextId,
                   tasksFrom, sessionOk>>

\* the Refresh Tasks button: fetchTasks() with the token of the render
fetchTasks ==
    /\ variant = 2 /\ isAuthenticated /\ CanIssue
    /\ net' = Append(net, TasksRequest(token, FALSE))
    /\ UNCHANGED <<memory, fixed, mounted, localStorage, loginLoading, server, nextId,
                   tasksFrom, sessionOk>>

\* setTasks(response.data.tasks || [])
setTasks_v2(old, payload, tok) == payload

\* fetchTasks, the request answered; a sendMessage awaiting it then runs its finally
fetchTasksOk(i) ==
    /\ variant = 2 /\ Resolves(i, "tasks")
    /\ tasks' = setTasks_v2(tasks, net[i].tasksResp, net[i].tok)
    /\ net' = Without(i)
    /\ loading' = (IF net[i].tail THEN FALSE ELSE loading)
    /\ tasksFrom' = net[i].tok
    /\ sessionOk' = (sessionOk /\ InSession(i))
    /\ UNCHANGED <<isAuthenticated, username, token, darkMode, messages, input,
                   sidebarOpen, activeTab, refreshKey>>
    /\ UNCHANGED <<fixed, mounted, localStorage, loginLoading, server, nextId>>

\* fetchTasks, the request failed: console.error only
fetchTasksFail(i) ==
    /\ variant = 2 /\ Rejects(i, "tasks")
    /\ net' = Without(i)
    /\ loading' = (IF net[i].tail THEN FALSE ELSE loading)
    /\ sessionOk' = FALSE
    /\ UNCHANGED <<isAuthenticated, username, token, darkMode, messages, input, tasks,
                   sidebarOpen, activeTab, refreshKey>>
    /\ UNCHANGED <<fixed, mounted, localStorage, loginLoading, server, nextId, tasksFrom>>

\* sendMessage up to the POST /api/chat; input and button are disabled while loading
sendMessage_v2 ==
    /\ variant = 2 /\ isAuthenticated /\ ~loading
    /\ IF Trim(input) = ""
       THEN UNCHANGED <<messages, input, loading, net>>
       ELSE /\ CanIssue /\ Len(messages) < MaxMsgs
            /\ messages' = Append(messages, Msg("user", <<input>>))
            /\ input' = ""
            /\ loading' = TRUE
            /\ net' = Append(net, Request("chat", token, 0, input, FALSE))
    /\ UNCHANGED <<isAuthenticated, username, token, darkMode, tasks, sidebarOpen,
                   activeTab, refreshKey>>
    /\ UNCHANGED <<fixed, mounted, localStorage, loginLoading, server, nextId, tasksFrom,
                   sessionOk>>

\* sendMessage, the request answered: the reply, then await fetchTasks()
sendMessageOk_v2(i) ==
    /\ variant = 2 /\ Resolves(i, "chat")
    /\ messages' = Append(messages, Msg("assistant", net[i].textResp))
    /\ net' = Append(Without(i), TasksRequest(net[i].tok, TRUE))
    /\ sessionOk' = (sessionOk /\ InSession(i))
    /\ UNCHANGED <<isAuthenticated, username, token, darkMode, input, tasks, loading,
                   sidebarOpen, activeTab, refreshKey>>
    /\ UNCHANGED <<fixed, mounted, localStorage, loginLoading, server, nextId, tasksFrom>>

\* sendMessage, the request failed: catch, finally
sendMessageFail_v2(i) ==
    /\ variant = 2 /\ Rejects(i, "chat")
    /\ messages' = Append(messages, ChatError_v2)
    /\ net' = Without(i)
    /\ loading' = FALSE
    /\ sessionOk' = FALSE
    /\ UNCHANGED <<isAuthenticated, username, token, darkMode, input, tasks, sidebarOpen,
                   activeTab, refreshKey>>
    /\ UNCHANGED <<fixed, mounted, localStorage, loginLoading, server, nextId, tasksFrom>>

\* the tasks the sidebar shows, each with its buttons
Shown == getFilteredTasks(tasks, activeTab, now)

\* a deleteTask that skips the call while one for the same task is pending
deleteTask_v2Deduplicating(taskId) ==
    /\ variant = 2 /\ isAuthenticated /\ taskId \in IdsOf(Shown) /\ CanIssue
    /\ IF \E i \in DOMAIN net : net[i].kind = "delete" /\ net[i].id = taskId
       THEN UNCHANGED net
       ELSE net' = Append(net, Request("delete", token, taskId, "", FALSE))
    /\ UNCHANGED <<memory, fixed, mounted, localStorage, loginLoading, server, nextId,
                   tasksFrom, sessionOk>>

\* deleteTask up to the DELETE /api/tasks/{id}
deleteTask_v2(taskId) ==
    /\ variant = 2 /\ isAuthenticated /\ taskId \in IdsOf(Shown) /\ CanIssue
    /\ net' = Append(net, Request("delete", token, taskId, "", FALSE))
    /\ UNCHANGED <<memory, fixed, mounted, localStorage, loginLoading, server, nextId,
                   tasksFrom, sessionOk>>

\* deleteTask, the request answered: await fetchTasks()
deleteTaskOk_v2(i) ==
    /\ variant = 2 /\ Resolves(i, "delete")
    /\ net' = Append(Without(i), TasksRequest(net[i].tok, FALSE))
    /\ sessionOk' = (sessionOk /\ InSession(i))
    /\ UNCHANGED <<memory, fixed, mounted, localStorage, loginLoading, server, nextId,
                   tasksFrom>>

\* a catch block that sends the DELETE again
deleteTaskFail_v2Retrying(i) ==
    /\ variant = 2 /\ Rejects(i, "delete")
    /\ net' = Append(Without(i), Request("delete", net[i].tok, net[i].id, "", FALSE))
    /\ sessionOk' = FALSE
    /\ UNCHANGED <<memory, fixed, mounted, localStorage, loginLoading, server, nextId,
                   tasksFrom>>

\* deleteTask, the request failed: console.error only
deleteTaskFail_v2(i) ==
    /\ variant = 2 /\ Rejects(i, "delete")
    /\ net' = Without(i)
    /\ sessionOk' = FALSE
    /\ UNCHANGED <<memory, fixed, mounted, localStorage, loginLoading, server, nextId,
                   tasksFrom>>

\* completeTask up to the PATCH /api/tasks/{id}; the button is shown for a
\* task that is not completed
completeTask(taskId) ==
    /\ variant = 2 /\ isAuthenticated /\ CanIssue /\ refreshKey < MaxRefresh
    /\ \E k \in DOMAIN Shown : Shown[k].id = taskId /\ Shown[k].status # "completed"
    /\ net' = Append(net, Request("patch", token, taskId, "", FALSE))
    /\ UNCHANGED <<memory, fixed, mounted, localStorage, loginLoading, server, nextId,
                   tasksFrom, sessionOk>>

\* an effect without its condition
RefreshEffectAlways(tok, loggedIn) == TRUE

\* the condition of the refreshKey effect: token && isLoggedIn
RefreshEffect(tok, loggedIn) == Truthy(tok) /\ loggedIn

\* completeTask, the request answered: setRefreshKey(prev => prev + 1), and the
\* refreshKey effect of the render that follows
completeTaskOk(i) ==
    /\ variant = 2 /\ Resolves(i, "patch")
    /\ refreshKey' = refreshKey + 1
    /\ IF RefreshEffect(token, isAuthenticated)
       THEN net' = Append(Without(i), TasksRequest(token, FALSE))
       ELSE net' = Without(i)
    /\ sessionOk' = (sessionOk /\ InSession(i))
    /\ UNCHANGED <<isAuthenticated, username, token, darkMode, messages, input, tasks,
                   loading, sidebarOpen, activeTab>>
    /\ UNCHANGED <<fixed, mounted, localStorage, loginLoading, server, nextId, tasksFrom>>

\* completeTask, the request failed: console.error only
completeTaskFail(i) ==
    /\ variant = 2 /\ Rejects(i, "patch")
    /\ net' = Without(i)
    /\ sessionOk' = FALSE
    /\ UNCHANGED <<memory, fixed, mounted, localStorage, loginLoading, server, nextId,
                   tasksFrom>>

(***************************************************************************)
(* The page is loaded again: the memory of the App is gone, pending        *)
(* requests are dropped by the browser, local storage stays.               *)
(***************************************************************************)
\* the useState initial values of the Login view
FreshLogin ==
    /\ isSignup = FALSE
    /\ formData = [username |-> <<>>, email |-> <<>>, password |-> <<>>]
    /\ error = ""

\* the paginated variant before its first render
FirstPage ==
    /\ pageSize = PageSize
    /\ currentPage = 1
    /\ pages = <<>>

\* useState([...]) of messages
InitialMessages == IF variant = 1 THEN <<InitialGreeting>> ELSE <<>>

\* the useState initial values
FreshMemory ==
    /\ isAuthenticated = FALSE
    /\ username = ""
    /\ token = ""
    /\ darkMode = FALSE
    /\ messages = InitialMessages
    /\ input = ""
    /\ tasks = <<>>
    /\ loading = FALSE
    /\ sidebarOpen = FALSE
    /\ activeTab = "all"
    /\ refreshKey = 0

Reload ==
    /\ mounted
    /\ UNCHANGED <<loginFixed, localStorage, server, nextId>>
    /\ isSignup' = FALSE
    /\ formData' = [username |-> <<>>, email |-> <<>>, password |-> <<>>]
    /\ error' = ""
    /\ mounted' = FALSE
    /\ isAuthenticated' = FALSE
    /\ username' = ""
    /\ token' = ""
    /\ darkMode' = FALSE
    /\ messages' = InitialMessages
    /\ input' = ""
    /\ tasks' = <<>>
    /\ loading' = FALSE
    /\ sidebarOpen' = FALSE
    /\ activeTab' = "all"
    /\ refreshKey' = 0
    /\ loginLoading' = FALSE
    /\ net' = <<>>
    /\ tasksFrom' = ""
    /\ sessionOk' = FALSE

(***************************************************************************)
(* The program                                                             *)
(***************************************************************************)
\* the day the page is used on, in days after 2025-01-01: 2025-12-28, so that
\* the week tab's nextWeek falls in the next year
AppDay == 361

InitialServer ==
    [u \in Users |->
        IF u = "alice"
        THEN <<Task(1, "todo", "urgent", ToISODate(AppDay), <<ToISODate(AppDay), "T09:00">>)>>
        ELSE <<Task(2, "todo", "high", NoDate, <<ToISODate(AppDay - 1), "T09:00">>)>>]

Init ==
    /\ variant \in {1, 2}
    /\ mounted = FALSE
    /\ FreshMemory
    /\ localStorage = [token |-> Null, username |-> Null, darkMode |-> Null]
    /\ loginLoading = FALSE
    /\ net = <<>>
    /\ server = InitialServer
    /\ nextId = 3
    /\ now = AppDay
    /\ filteredTasks = <<>>
    /\ stats = <<>>
    /\ clicks = 0
    /\ tasksFrom = ""
    /\ sessionOk = FALSE
    /\ loggedOut = FALSE
    /\ FreshLogin
    /\ FirstPage

\* a step taken by the user, and a step taken by the page, the network or the backend
ByUser(A) == clicks < MaxClicks /\ A /\ clicks' = clicks + 1
ByItself(A) == A /\ UNCHANGED clicks

Next ==
    \/ ByItself(Mount_v1)
    \/ ByItself(Mount_v2)
    \/ ByUser(Reload)
    \/ ByItself(Serve)
    \/ \E u \in Users : ByUser(LoginSubmit(u))
    \/ \E i \in DOMAIN net : ByItself(LoginFail(i))
    \/ \E i \in DOMAIN net : ByItself(verifyTokenOk(i))
    \/ \E i \in DOMAIN net : ByItself(verifyTokenFail(i))
    \/ \E i \in DOMAIN net : ByItself(handleLoginSuccess_v1(i))
    \/ ByUser(handleLogout_v1)
    \/ ByUser(toggleDarkMode_v1)
    \/ \E v \in Inputs : ByUser(setInput_v1(v))
    \/ ByUser(loadTasks)
    \/ \E i \in DOMAIN net : ByItself(loadTasksOk(i))
    \/ \E i \in DOMAIN net : ByItself(loadTasksFail(i))
    \/ ByUser(sendMessage_v1)
    \/ \E i \in DOMAIN net : ByItself(sendMessageOk_v1(i))
    \/ \E i \in DOMAIN net : ByItself(sendMessageFail_v1(i))
    \/ \E id \in IdsOf(tasks), confirm \in BOOLEAN : ByUser(deleteTask_v1(id, confirm))
    \/ \E i \in DOMAIN net : ByItself(deleteTaskOk_v1(i))
    \/ \E i \in DOMAIN net : ByItself(deleteTaskFail_v1(i))
    \/ \E i \in DOMAIN net : ByItself(handleLoginSuccess_v2(i))
    \/ ByUser(handleLogout_v2)
    \/ ByUser(toggleDarkMode_v2)
    \/ ByUser(toggleSidebar)
    \/ \E tab \in Tabs : ByUser(setActiveTab(tab))
    \/ \E v \in Inputs : ByUser(setInput_v2(v))
    \/ ByUser(fetchTasks)
    \/ \E i \in DOMAIN net : ByItself(fetchTasksOk(i))
    \/ \E i \in DOMAIN net : ByItself(fetchTasksFail(i))
    \/ ByUser(sendMessage_v2)
    \/ \E i \in DOMAIN net : ByItself(sendMessageOk_v2(i))
    \/ \E i \in DOMAIN net : ByItself(sendMessageFail_v2(i))
    \/ \E id \in IdsOf(tasks) : ByUser(deleteTask_v2(id))
    \/ \E i \in DOMAIN net : ByItself(deleteTaskOk_v2(i))
    \/ \E i \in DOMAIN net : ByItself(deleteTaskFail_v2(i))
    \/ \E id \in IdsOf(tasks) : ByUser(completeTask(id))
    \/ \E i \in DOMAIN net : ByItself(completeTaskOk(i))
    \/ \E i \in DOMAIN net : ByItself(completeTaskFail(i))

Spec == Init /\ [][Next]_vars

(***************************************************************************)
(* The tab filter and the Dashboard on their own: the task list (and the   *)
(* tab) are drawn from bounded sets, the one step is the render.           *)
(***************************************************************************)
\* alice is logged in, nothing is in flight, the view is about to render
AboutToRender(v) ==
    /\ variant = v
    /\ mounted = FALSE
    /\ isAuthenticated = TRUE
    /\ username = "alice"
    /\ token = TokenOf["alice"]
    /\ darkMode = FALSE
    /\ messages = InitialMessages
    /\ input = ""
    /\ loading = FALSE
    /\ sidebarOpen = FALSE
    /\ refreshKey = 0
    /\ localStorage = [token |-> TokenOf["alice"], username |-> "alice", darkMode |-> Null]
    /\ loginLoading = FALSE
    /\ net = <<>>
    /\ server = InitialServer
    /\ nextId = 3
    /\ now = AppDay
    /\ filteredTasks = <<>>
    /\ stats = <<>>
    /\ clicks = 0
    /\ tasksFrom = TokenOf["alice"]
    /\ sessionOk = TRUE
    /\ loggedOut = FALSE
    /\ FreshLogin
    /\ FirstPage

\* tasks is a list of at most MaxLen tasks over a set of tasks, ids being 1, 2, ...
TasksOver(domain) ==
    \E n \in 0..MaxLen : \E f \in [1..n -> domain] :
        tasks = [i \in 1..n |-> [f[i] EXCEPT !.id = i]]

FilterDues == {NoDate, ToISODate(AppDay - 1), ToISODate(AppDay), ToISODate(AppDay + 7),
               ToISODate(AppDay + 8)}
FilterDomain ==
    {Task(0, st, pr, due, NoDate) : st \in Statuses, pr \in {"urgent", "high", "medium"},
                                    due \in FilterDues}

FilterInit ==
    /\ AboutToRender(2)
    /\ TasksOver(FilterDomain)
    /\ activeTab \in Tabs \cup {"archive"}

\* const filteredTasks = getFilteredTasks()
RenderSidebar ==
    /\ variant = 2 /\ ~mounted /\ isAuthenticated
    /\ mounted' = TRUE
    /\ filteredTasks' = getFilteredTasks(tasks, activeTab, now)
    /\ UNCHANGED <<variant, isAuthenticated, username, token, darkMode, messages, input,
                   tasks, loading, sidebarOpen, activeTab, refreshKey, localStorage,
                   loginLoading, net, server, nextId, now, stats, clicks, tasksFrom,
                   sessionOk, isSignup, formData, error, pageSize, currentPage, pages,
                   loggedOut>>

FilterNext == RenderSidebar

SpecFilter == FilterInit /\ [][FilterNext]_vars

Stamps == {NoDate, <<ToISODate(AppDay), "T08:30">>, <<ToISODate(AppDay - 1), "T23:30">>}
DashDomain ==
    {Task(0, st, pr, NoDate, cr) : st \in Statuses, pr \in Priorities, cr \in Stamps}

\* c completed tasks followed by t - c tasks to do
RateList(c, t) ==
    [i \in 1..t |-> Task(i, IF i <= c THEN "completed" ELSE "todo", "medium", NoDate, NoDate)]

DashInit ==
    /\ AboutToRender(1)
    /\ activeTab = "all"
    /\ \/ TasksOver(DashDomain)
       \/ \E t \in 0..MaxRateLen : \E c \in 0..t : tasks = RateList(c, t)

\* <Dashboard tasks={tasks} darkMode={darkMode} />
RenderDashboard ==
    /\ variant = 1 /\ ~mounted /\ isAuthenticated
    /\ mounted' = TRUE
    /\ stats' = Dashboard(tasks, now)
    /\ UNCHANGED <<variant, isAuthenticated, username, token, darkMode, messages, input,
                   tasks, loading, sidebarOpen, activeTab, refreshKey, localStorage,
                   loginLoading, net, server, nextId, now, filteredTasks, clicks,
                   tasksFrom, sessionOk, isSignup, formData, error, pageSize, currentPage,
                   pages, loggedOut>>

DashNext == RenderDashboard

SpecDashboard == DashInit /\ [][DashNext]_vars

(***************************************************************************)
(* The start of the App on its own: local storage holds what earlier use   *)
(* of the page left there, the steps are those of a start, of the session  *)
(* it restores, and of the dark-mode and logout buttons.                   *)
(***************************************************************************)
\* a token the backend no longer accepts
StaleToken == "jwt-expired"

StartupInit ==
    /\ variant \in {1, 2}
    /\ mounted = FALSE
    /\ FreshMemory
    /\ localStorage \in [token : {Null, StaleToken} \cup {TokenOf[u] : u \in Users},
                         username : {Null} \cup Users,
                         darkMode : {Null, "true", "false"}]
    /\ loginLoading = FALSE
    /\ net = <<>>
    /\ server = InitialServer
    /\ nextId = 3
    /\ now = AppDay
    /\ filteredTasks = <<>>
    /\ stats = <<>>
    /\ clicks = 0
    /\ tasksFrom = ""
    /\ sessionOk = FALSE
    /\ loggedOut = FALSE
    /\ FreshLogin
    /\ FirstPage

StartupNext ==
    \/ ByItself(Mount_v1)
    \/ ByItself(Mount_v2)
    \/ ByUser(Reload)
    \/ ByItself(Serve)
    \/ \E i \in DOMAIN net : ByItself(verifyTokenOk(i))
    \/ \E i \in DOMAIN net : ByItself(verifyTokenFail(i))
    \/ \E i \in DOMAIN net : ByItself(loadTasksOk(i))
    \/ \E i \in DOMAIN net : ByItself(loadTasksFail(i))
    \/ \E i \in DOMAIN net : ByItself(fetchTasksOk(i))
    \/ \E i \in DOMAIN net : ByItself(fetchTasksFail(i))
    \/ ByUser(handleLogout_v1)
    \/ ByUser(handleLogout_v2)
    \/ ByUser(toggleDarkMode_v1)
    \/ ByUser(toggleDarkMode_v2)

SpecStartup == StartupInit /\ [][StartupNext]_vars

(***************************************************************************)
(* Paginated variant (specification section 4.3; its code is not part of   *)
(* the sources): the filtered list is shown one page at a time.            *)
(***************************************************************************)
\* total page count with a floor of the quotient
totalPagesFloor(n, size) == IF n \div size < 1 THEN 1 ELSE n \div size

\* total page count: ceiling(filtered length / page size), minimum 1
totalPages(n, size) ==
    IF (n + size - 1) \div size < 1 THEN 1 ELSE (n + size - 1) \div size

\* the sub-sequence of a page; a page beyond the data is empty
PageSlice(list, size, page) ==
    LET first == (page - 1) * size + 1
        last == IF page * size < Len(list) THEN page * size ELSE Len(list)
    IN  IF first > last THEN <<>> ELSE SubSeq(list, first, last)

\* the current page clamped to [1, totalPages]
Clamp(page, total) == IF page < 1 THEN 1 ELSE IF page > total THEN total ELSE page

\* what a render of the paginated list shows: the filtered list and its pages
RenderPaged(tab) ==
    /\ filteredTasks' = getFilteredTasks(tasks, tab, now)
    /\ pages' = [p \in 1..totalPages(Len(filteredTasks'), pageSize) |->
                    PageSlice(filteredTasks', pageSize, p)]

PagedFrame ==
    UNCHANGED <<variant, isAuthenticated, username, token, darkMode, messages, input,
                tasks, loading, sidebarOpen, refreshKey, localStorage, loginLoading, net,
                server, nextId, now, stats, clicks, tasksFrom, sessionOk, isSignup,
                formData, error, pageSize, loggedOut>>

\* first render
Mount_paged ==
    /\ variant = 3 /\ ~mounted
    /\ mounted' = TRUE
    /\ RenderPaged(activeTab)
    /\ UNCHANGED <<activeTab, currentPage>>
    /\ PagedFrame

\* a tab switch that keeps the pagination cursor
setActiveTab_pagedKeepingPage(tab) ==
    /\ variant = 3 /\ mounted
    /\ activeTab' = tab
    /\ RenderPaged(tab)
    /\ UNCHANGED <<mounted, currentPage>>
    /\ PagedFrame

\* a tab button: the tab is selected and the pagination cursor reset
setActiveTab_paged(tab) ==
    /\ variant = 3 /\ mounted
    /\ activeTab' = tab
    /\ currentPage' = 1
    /\ RenderPaged(tab)
    /\ UNCHANGED mounted
    /\ PagedFrame

\* navigation to a page, clamped to [1, totalPages]
goToPage(page) ==
    /\ variant = 3 /\ mounted
    /\ currentPage' = Clamp(page, totalPages(Len(filteredTasks), pageSize))
    /\ UNCHANGED <<mounted, activeTab, filteredTasks, pages>>
    /\ PagedFrame

\* n tasks of mixed priority and status
PagedList(n) ==
    [i \in 1..n |-> Task(i, IF i % 3 = 0 THEN "completed" ELSE "todo",
                            IF i % 2 = 0 THEN "urgent" ELSE "medium", NoDate, NoDate)]

PagedInit ==
    /\ variant = 3
    /\ mounted = FALSE
    /\ isAuthenticated = TRUE
    /\ username = "alice"
    /\ token = TokenOf["alice"]
    /\ darkMode = FALSE
    /\ messages = <<>>
    /\ input = ""
    /\ loading = FALSE
    /\ sidebarOpen = FALSE
    /\ activeTab = "all"
    /\ refreshKey = 0
    /\ localStorage = [token |-> TokenOf["alice"], username |-> "alice", darkMode |-> Null]
    /\ loginLoading = FALSE
    /\ net = <<>>
    /\ server = InitialServer
    /\ nextId = 3
    /\ now = AppDay
    /\ filteredTasks = <<>>
    /\ stats = <<>>
    /\ clicks = 0
    /\ tasksFrom = TokenOf["alice"]
    /\ sessionOk = TRUE
    /\ loggedOut = FALSE
    /\ FreshLogin
    /\ currentPage = 1
    /\ pages = <<>>
    /\ pageSize \in 1..MaxPageSize
    /\ \E n \in 0..MaxItems : tasks = PagedList(n)

PagedNext ==
    \/ Mount_paged
    \/ \E tab \in Tabs : setActiveTab_paged(tab)
    \/ \E page \in 0..(MaxItems + 2) : goToPage(page)

SpecPaginator == PagedInit /\ [][PagedNext]_vars

(***************************************************************************)
(* The Login form on its own: the fields are drawn from bounded sets, the  *)
(* one step is the submit.                                                 *)
(***************************************************************************)
NameChars == {"a", " "}
EmailChars == {"a", "@", "."}
\* emails with white space: blank ones, and well-formed ones but for a space
SpacedEmails ==
    {<<" ">>, <<" ", " ">>, <<" ", "@", "a", ".", "a">>, <<"a", "@", " ", ".", "a">>,
     <<"a", "@", "a", ".", " ">>, <<"a", "@", "a", " ", "a">>}
PwChars == {"p"}

\* the form holds a username and a password of bounded length, and in signup
\* mode an email (the email field is rendered, and filled, in signup mode only)
Typed ==
    \E nu \in 0..MaxNameLen : \E np \in 0..MaxPwLen :
    \E u \in [1..nu -> NameChars] : \E p \in [1..np -> PwChars] :
        \/ /\ isSignup = FALSE
           /\ formData = [username |-> u, email |-> <<>>, password |-> p]
        \/ /\ isSignup = TRUE
           /\ \/ \E ne \in 0..MaxEmailLen : \E e \in [1..ne -> EmailChars] :
                     formData = [username |-> u, email |-> e, password |-> p]
              \/ \E e \in SpacedEmails :
                     formData = [username |-> u, email |-> e, password |-> p]

LoginInit ==
    /\ variant = 1
    /\ mounted = TRUE
    /\ FreshMemory
    /\ localStorage = [token |-> Null, username |-> Null, darkMode |-> "false"]
    /\ loginLoading = FALSE
    /\ net = <<>>
    /\ server = InitialServer
    /\ nextId = 3
    /\ now = AppDay
    /\ filteredTasks = <<>>
    /\ stats = <<>>
    /\ clicks = 0
    /\ tasksFrom = ""
    /\ sessionOk = FALSE
    /\ loggedOut = FALSE
    /\ FirstPage
    /\ error = ""
    /\ Typed

LoginNext == handleSubmit

SpecLogin == LoginInit /\ [][LoginNext]_vars

(***************************************************************************)
(* Signing in on its own: the App shows the Login view, the form holds     *)
(* what the user typed, the steps are those of the Login view, of the      *)
(* backend answering it and of the App's onLoginSuccess.                   *)
(***************************************************************************)
ShortName == <<"a">>
GoodEmail == <<"a", "@", "a", ".", "a">>
BadEmail == <<"a">>
GoodPassword == <<"p", "p", "p", "p">>
ShortPassword == <<"p">>

SignInInit ==
    /\ variant \in {1, 2}
    /\ mounted = TRUE
    /\ FreshMemory
    /\ localStorage = [token |-> Null, username |-> Null,
                       darkMode |-> IF variant = 1 THEN "false" ELSE Null]
    /\ loginLoading = FALSE
    /\ net = <<>>
    /\ server = InitialServer
    /\ nextId = 3
    /\ now = AppDay
    /\ filteredTasks = <<>>
    /\ stats = <<>>
    /\ clicks = 0
    /\ tasksFrom = ""
    /\ sessionOk = FALSE
    /\ loggedOut = FALSE
    /\ FirstPage
    /\ error = ""
    /\ isSignup \in BOOLEAN
    /\ \E u \in {Spell(x) : x \in Users} \cup {ShortName} :
       \E e \in IF isSignup THEN {GoodEmail, BadEmail} ELSE {<<>>} :
       \E p \in {GoodPassword, ShortPassword} :
           formData = [username |-> u, email |-> e, password |-> p]

SignInNext ==
    \/ handleSubmit
    \/ \E s \in BOOLEAN : ByUser(handleTabSwitch(s))
    \/ \E i \in DOMAIN net : ByItself(ServeForm(i))
    \/ \E i \in DOMAIN net : ByItself(signupOk(i))
    \/ \E i \in DOMAIN net : ByItself(LoginFail(i))
    \/ \E i \in DOMAIN net : ByItself(handleLoginSuccess_v1(i))
    \/ \E i \in DOMAIN net : ByItself(handleLoginSuccess_v2(i))

SpecSignIn == SignInInit /\ [][SignInNext]_vars

(***************************************************************************)
(* C1-C3: the tab filter and the Dashboard                                 *)
(***************************************************************************)
\* the day a 'YYYY-MM-DD' string names
DayOf(date) == CHOOSE n \in (AppDay - 10)..(AppDay + 10) : ToISODate(n) = date

\* the policy of a tab: today - due today and not completed; week - due date
\* set, at most seven days ahead, not completed; urgent / high - that priority
\* and not completed; completed - completed; all - every task
Matches(tab, t) ==
    CASE tab = "today" -> /\ t.due_date # NoDate /\ DayOf(t.due_date) = now
                          /\ t.status \in {"todo", "in_progress"}
      [] tab = "week" -> /\ t.due_date # NoDate /\ DayOf(t.due_date) <= now + 7
                         /\ t.status \in {"todo", "in_progress"}
      [] tab = "urgent" -> t.priority = "urgent" /\ t.status \in {"todo", "in_progress"}
      [] tab = "high" -> t.priority = "high" /\ t.status \in {"todo", "in_progress"}
      [] tab = "completed" -> t.status = "completed"
      [] OTHER -> TRUE

\* out is in picked out of it by a strictly increasing choice of positions
IsSubsequence(out, in) ==
    \E f \in [DOMAIN out -> DOMAIN in] :
        /\ \A k \in DOMAIN out : out[k] = in[f[k]]
        /\ \A k, l \in DOMAIN out : k < l => f[k] < f[l]

\* C1: for every task list and every tab, each task the tab filter returns
\* satisfies the tab's predicate, each task of the list that satisfies it is
\* returned exactly once, and the relative order is that of the list; for
\* 'all' the result is the list itself.
C1_FilterIsMatchingSubsequence ==
    (variant = 2 /\ mounted /\ activeTab \in Tabs) =>
        /\ \A k \in DOMAIN filteredTasks : Matches(activeTab, filteredTasks[k])
        /\ IsSubsequence(filteredTasks, tasks)
        /\ \A i \in DOMAIN tasks :
              Matches(activeTab, tasks[i]) =>
                  Cardinality({k \in DOMAIN filteredTasks : filteredTasks[k] = tasks[i]}) = 1
        /\ activeTab = "all" => filteredTasks = tasks

\* C1 witness: a rendered tab other than 'all' that keeps the second task of
\* the list and drops the first
C1_Witness ==
    /\ variant = 2 /\ mounted /\ activeTab = "week"
    /\ Len(tasks) = 2 /\ filteredTasks = <<tasks[2]>>
    /\ tasks[1].status = "completed"

\* round(100 * completed / total), a half rounding up; 0 for the empty list
RoundedPercent(completed, total) ==
    IF total = 0 THEN 0 ELSE (200 * completed + total) \div (2 * total)

RECURSIVE CountIf(_, _, _)
\* how many tasks of ts have priority p and, when active, are not completed
CountIf(ts, p, active) ==
    IF ts = <<>> THEN 0
    ELSE (IF Head(ts).priority = p /\ (active => Head(ts).status # "completed")
          THEN 1 ELSE 0) + CountIf(Tail(ts), p, active)

RECURSIVE CountCompleted(_)
CountCompleted(ts) ==
    IF ts = <<>> THEN 0
    ELSE (IF Head(ts).status = "completed" THEN 1 ELSE 0) + CountCompleted(Tail(ts))

\* C2: for every task list the Dashboard's completionRate is
\* round(100 * completed / total), a half rounding up, and 0 for the empty list.
C2_CompletionRateIsRounded ==
    (variant = 1 /\ mounted /\ stats # <<>>) =>
        stats.completionRate = RoundedPercent(CountCompleted(tasks), Len(tasks))

\* C3: for every task list and each priority the Dashboard's count is the
\* number of tasks of that priority that are not completed.
C3_PriorityCountsSkipCompleted ==
    (variant = 1 /\ mounted /\ stats # <<>>) =>
        /\ stats.urgentCount = CountIf(tasks, "urgent", TRUE)
        /\ stats.highCount = CountIf(tasks, "high", TRUE)
        /\ stats.mediumCount = CountIf(tasks, "medium", TRUE)
        /\ stats.lowCount = CountIf(tasks, "low", TRUE)

\* C3 witness: two tasks of high priority, one of them completed, counted as one
C3_Witness ==
    /\ variant = 1 /\ mounted /\ stats # <<>>
    /\ CountIf(tasks, "high", FALSE) = 2
    /\ CountCompleted(tasks) = 1
    /\ stats.highCount = 1

(***************************************************************************)
(* C4-C10: the App shell and its requests                                  *)
(***************************************************************************)
\* the step ends with a new GET /api/tasks, made with tok, as the last request
FetchIssued(i, tok) ==
    /\ Len(net') = Len(net)
    /\ net'[Len(net')] = TasksRequest(tok, net'[Len(net')].tail)
    /\ SubSeq(net', 1, Len(net') - 1) = Without(i)

AnyFetchIssued(i) == \E u \in Users : FetchIssued(i, TokenOf[u])

SendOrDeleteOk(i) ==
    sendMessageOk_v1(i) \/ deleteTaskOk_v1(i) \/ sendMessageOk_v2(i) \/ deleteTaskOk_v2(i)

TasksOk(i) == loadTasksOk(i) \/ fetchTasksOk(i)

\* C4 as claimed: whenever the network call of send, delete or complete
\* succeeds, a GET of the full task list is issued, unconditionally.
C4_AlwaysRefetches ==
    [][\A i \in DOMAIN net :
          (SendOrDeleteOk(i) \/ completeTaskOk(i)) => AnyFetchIssued(i)]_vars

\* C4 as amended: a successful send or delete issues the GET with the token the
\* action was started with; a successful complete issues it, with the current
\* token, exactly when the app is logged in as the response is handled; and a
\* GET that succeeds replaces the in-memory list by its response.
C4_RefetchesWhileLoggedIn ==
    [][\A i \in DOMAIN net :
          /\ SendOrDeleteOk(i) => FetchIssued(i, net[i].tok)
          /\ completeTaskOk(i) =>
                IF isAuthenticated /\ token # ""
                THEN FetchIssued(i, token)
                ELSE net' = Without(i) /\ tasks' = tasks
          /\ TasksOk(i) => tasks' = net[i].tasksResp]_vars

\* C4 witness: the chat answered, its reply in the transcript and the GET
\* that follows it in flight
C4_Witness ==
    /\ variant = 2 /\ isAuthenticated /\ Len(messages) >= 2
    /\ messages[Len(messages)].content = <<"reply to", username>>
    /\ \E i \in DOMAIN net : net[i].kind = "tasks" /\ net[i].tail /\ net[i].tok = token

\* C5: while a user is logged in, the task list and the replies in the
\* transcript come from requests made with that user's token.
C5_TenantIsolation ==
    isAuthenticated =>
        /\ tasksFrom \in {"", token}
        /\ \A k \in DOMAIN messages :
              messages[k].content[1] = "reply to" => messages[k].content[2] = username

\* C6: within one session in which no request failed, once nothing is in
\* flight the task list equals the backend's list of the user.
C6_TasksInSync ==
    (isAuthenticated /\ sessionOk /\ net = <<>>) => tasks = server[username]

\* C7: every task-list response that resolves overwrites the whole list with
\* its payload, wherever it stands in the order of issue and whatever else is
\* in flight; the one that resolves last leaves its payload as the list.
C7_LastResponseWins ==
    [][\A i \in DOMAIN net :
          TasksOk(i) => /\ tasks' = net[i].tasksResp
                        /\ net' = Without(i)
                        /\ (Len(net) = 1 => net' = <<>>)]_vars

\* C7 witness: two fetches were in flight; the one issued first resolved last,
\* and its payload, no longer the backend's list, is the task list
C7_Witness ==
    /\ isAuthenticated /\ sessionOk /\ net = <<>> /\ tasksFrom = token
    /\ tasks # server[username]

\* C8: handleLogout leaves the requests in flight as they are, and a task-list
\* response handled while logged out still becomes the task list.
C8_NoCancellationOnLogout ==
    [][/\ (handleLogout_v1 \/ handleLogout_v2) => net' = net
       /\ \A i \in DOMAIN net :
             (TasksOk(i) /\ ~isAuthenticated) =>
                 /\ tasks' = net[i].tasksResp
                 /\ ~isAuthenticated' /\ token' = token]_vars

\* C8 witness: logged out, the token empty, and the task list not empty
C8_Witness ==
    /\ mounted /\ ~isAuthenticated /\ token = "" /\ tasks # <<>>

\* C9: the task list changes only by being replaced with the payload of a
\* task-list response or by being emptied (logout; the page loaded again);
\* a send, delete or complete that resolves, either way, leaves it alone.
C9_TasksOnlyReplaced ==
    [][/\ tasks' # tasks =>
             \/ \E i \in DOMAIN net : TasksOk(i) /\ tasks' = net[i].tasksResp
             \/ (handleLogout_v1 \/ handleLogout_v2 \/ Reload) /\ tasks' = <<>>
       /\ \A i \in DOMAIN net :
             (\/ SendOrDeleteOk(i) \/ completeTaskOk(i)
              \/ sendMessageFail_v1(i) \/ sendMessageFail_v2(i)
              \/ deleteTaskFail_v1(i) \/ deleteTaskFail_v2(i) \/ completeTaskFail(i))
                 => tasks' = tasks]_vars

\* C9 witness: a delete has succeeded (the backend no longer has the task, the
\* transcript says so) and the task is still in the list
C9_Witness ==
    /\ variant = 1 /\ isAuthenticated /\ username = "alice"
    /\ messages[Len(messages)] = TaskDeleted
    /\ 1 \in IdsOf(tasks) /\ 1 \notin IdsOf(server["alice"])

\* C10: a failed send appends the one fixed error message, a failed delete
\* appends the fixed message (variant 1) or nothing (variant 2), a failed
\* complete or fetch appends nothing; none of them changes the task list or
\* issues a fetch.
C10_FailureLeavesTasks ==
    [][\A i \in DOMAIN net :
          /\ sendMessageFail_v1(i) => messages' = Append(messages, ChatError)
          /\ sendMessageFail_v2(i) => messages' = Append(messages, ChatError_v2)
          /\ deleteTaskFail_v1(i) => messages' = Append(messages, DeleteError)
          /\ (deleteTaskFail_v2(i) \/ completeTaskFail(i) \/ loadTasksFail(i)
                 \/ fetchTasksFail(i)) => messages' = messages
          /\ (\/ sendMessageFail_v1(i) \/ sendMessageFail_v2(i)
              \/ deleteTaskFail_v1(i) \/ deleteTaskFail_v2(i)
              \/ completeTaskFail(i) \/ loadTasksFail(i) \/ fetchTasksFail(i))
                 => tasks' = tasks /\ net' = Without(i)]_vars

\* C10 witness: a send has failed: the error message follows the user's
\* message, nothing is in flight, the list is the one fetched before
C10_Witness ==
    /\ variant = 1 /\ isAuthenticated /\ net = <<>> /\ ~loading
    /\ Len(messages) >= 2
    /\ messages[Len(messages)] = ChatError
    /\ messages[Len(messages) - 1].role = "user"
    /\ tasks # <<>>

(***************************************************************************)
(* C11-C20                                                                 *)
(***************************************************************************)
\* every character of str is white space
Blank(str) == \A i \in 1..Len(str) : str[i] = " "

\* str has no white space and exactly one '@', which is not its first
\* character, and a '.' follows the '@' with at least one character between
\* them and at least one after it
HasEmailShape(str) ==
    LET ats == {i \in 1..Len(str) : str[i] = "@"}
    IN  /\ \A i \in 1..Len(str) : str[i] # " "
        /\ Cardinality(ats) = 1
        /\ \A i \in ats : i > 1 /\ \E j \in (i + 2)..(Len(str) - 1) : str[j] = "."

\* the inline error of the first check that fails, in the order username,
\* email (signup mode only), password; "" when every check passes
FirstFailure ==
    CASE Blank(formData.username) -> "Username is required"
      [] ~Blank(formData.username) /\ Len(formData.username) < 3 ->
             "Username must be at least 3 characters"
      [] OTHER ->
         CASE isSignup /\ Blank(formData.email) -> "Email is required"
           [] isSignup /\ ~Blank(formData.email) /\ ~HasEmailShape(formData.email) ->
                  "Please enter a valid email address"
           [] OTHER ->
              CASE Len(formData.password) = 0 -> "Password is required"
                [] Len(formData.password) \in 1..3 -> "Password must be at least 4 characters"
                [] OTHER -> ""

\* C11: when a check of the Login form fails, handleSubmit sets the inline
\* error of the first failing check (username, then email in signup mode, then
\* password) and issues no request, does not set loading and leaves local
\* storage alone.
C11_ValidationBlocksSubmit ==
    [][(handleSubmit /\ FirstFailure # "") =>
          /\ error' = FirstFailure
          /\ net' = net
          /\ loginLoading' = loginLoading
          /\ localStorage' = localStorage]_vars

\* a signup with a good username and password was stopped at the email pattern
C11_Witness ==
    /\ error = "Please enter a valid email address"
    /\ isSignup
    /\ Len(formData.username) >= 3
    /\ Len(formData.password) >= 4
    /\ net = <<>>
    /\ ~loginLoading

\* both keys of a session are in local storage
SessionStored == Truthy(localStorage.token) /\ Truthy(localStorage.username)

\* the request last issued is of this kind and carries this token
LastIssued(kind, tok) ==
    /\ Len(net') >= 1
    /\ net'[Len(net')].kind = kind
    /\ net'[Len(net')].tok = tok
    /\ net'[Len(net')].phase = "sent"

\* C12: variant 1 at mount: with token and username in local storage one GET
\* /api/verify is issued with that token, otherwise none is issued and the App
\* is not authenticated; when the verify succeeds the App is authenticated with
\* the token and username read at mount and fetches the tasks with that token;
\* when it fails both keys are removed and the App is not authenticated; the
\* App becomes authenticated by a successful verify only.
C12_StartupVerification ==
    /\ [][Mount_v1 =>
            IF SessionStored
            THEN /\ net' = Append(net, Request("verify", localStorage.token, 0,
                                                localStorage.username, FALSE))
                 /\ ~isAuthenticated'
            ELSE net' = net /\ ~isAuthenticated']_vars
    /\ [][\A i \in DOMAIN net : verifyTokenOk(i) =>
            /\ isAuthenticated'
            /\ token' = net[i].tok
            /\ username' = net[i].text
            /\ LastIssued("tasks", net[i].tok)
            /\ Len(net') = Len(net)]_vars
    /\ [][\A i \in DOMAIN net : verifyTokenFail(i) =>
            /\ localStorage'.token = Null
            /\ localStorage'.username = Null
            /\ ~isAuthenticated'
            /\ Len(net') = Len(net) - 1]_vars
    /\ [][(variant = 1 /\ ~isAuthenticated /\ isAuthenticated') =>
            \E i \in DOMAIN net : verifyTokenOk(i)]_vars

\* the stored session was verified and restored, with a username that is not
\* the token's owner's
C12_Witness ==
    /\ variant = 1 /\ isAuthenticated
    /\ token = TokenOf["alice"] /\ username = "bob"
    /\ \E i \in DOMAIN net : net[i].kind = "tasks" /\ net[i].tok = token

\* the login request i is answered and the App shell takes the session
LoginSucceeds(i) == handleLoginSuccess_v1(i) \/ handleLoginSuccess_v2(i)

SessionKeys == <<localStorage.token, localStorage.username>>

\* C13: a successful login writes the returned token and username to local
\* storage; they stay there, while the user is logged in, until handleLogout
\* (or another login) replaces them; an App start restores exactly the stored
\* values (variant 2 at once, variant 1 when the verify succeeds); handleLogout
\* removes both keys, and a start without them shows the Login view.
C13_SessionRoundTrip ==
    /\ [][\A i \in DOMAIN net : LoginSucceeds(i) =>
            /\ localStorage'.token = net[i].textResp[1]
            /\ localStorage'.username = net[i].textResp[2]
            /\ isAuthenticated' /\ token' = net[i].textResp[1]
            /\ username' = net[i].textResp[2]]_vars
    /\ [][(isAuthenticated /\ SessionKeys' # SessionKeys) =>
            \/ handleLogout_v1 \/ handleLogout_v2
            \/ \E i \in DOMAIN net : LoginSucceeds(i)]_vars
    /\ [][(Mount_v2 /\ SessionStored) =>
            /\ isAuthenticated'
            /\ token' = localStorage.token
            /\ username' = localStorage.username]_vars
    /\ [][(Mount_v1 /\ SessionStored) =>
            LastIssued("verify", localStorage.token)]_vars
    /\ [][\A i \in DOMAIN net : verifyTokenOk(i) =>
            isAuthenticated' /\ token' = net[i].tok /\ username' = net[i].text]_vars
    /\ [][(handleLogout_v1 \/ handleLogout_v2) =>
            localStorage'.token = Null /\ localStorage'.username = Null]_vars
    /\ [][((Mount_v1 \/ Mount_v2) /\ ~SessionStored) => ~isAuthenticated']_vars

\* a request of this kind is in flight
Pending(kind) == \E i \in DOMAIN net : net[i].kind = kind

\* the step issues exactly one request, of this kind
IssuesOne(kind) ==
    /\ Len(net') = Len(net) + 1
    /\ SubSeq(net', 1, Len(net)) = net
    /\ net'[Len(net')].kind = kind
    /\ net'[Len(net')].phase = "sent"

SendInvoked == sendMessage_v1 \/ sendMessage_v2
DeleteInvoked == \E id \in IdsOf(tasks) : deleteTask_v1(id, TRUE) \/ deleteTask_v2(id)
CompleteInvoked == \E id \in IdsOf(tasks) : completeTask(id)

\* C14 as claimed: send message, delete and mark complete each issue a second
\* network call when invoked again before their first call has resolved.
C14_DoubleClickIssuesTwo ==
    /\ [][(SendInvoked /\ Pending("chat")) => IssuesOne("chat")]_vars
    /\ [][(DeleteInvoked /\ Pending("delete")) => IssuesOne("delete")]_vars
    /\ [][(CompleteInvoked /\ Pending("patch")) => IssuesOne("patch")]_vars

\* C14 amended: delete and mark complete issue a call on every invocation,
\* whatever is pending; send message invoked while its call is pending issues
\* none and changes neither the transcript nor the input.
C14_DoubleClickDeleteComplete ==
    /\ [][DeleteInvoked => IssuesOne("delete")]_vars
    /\ [][CompleteInvoked => IssuesOne("patch")]_vars
    /\ [][(SendInvoked /\ Pending("chat")) =>
            net' = net /\ messages' = messages /\ input' = input]_vars

\* two calls for the same task are in flight: two DELETEs or two PATCHes
C14_Witness ==
    /\ Len(net) = 2
    /\ net[1].kind = net[2].kind
    /\ net[1].kind \in {"delete", "patch"}
    /\ net[1].id = net[2].id
    /\ net[1].tok = net[2].tok

\* the number of requests of this kind in flight
InFlight(reqs, kind) == Cardinality({i \in DOMAIN reqs : reqs[i].kind = kind})

\* the request i fails and its handler's catch block runs
ActionFails(i) ==
    \/ sendMessageFail_v1(i) \/ sendMessageFail_v2(i)
    \/ deleteTaskFail_v1(i) \/ deleteTaskFail_v2(i)
    \/ completeTaskFail(i)

FetchFails(i) == loadTasksFail(i) \/ fetchTasksFail(i)

RECURSIVE Concat(_)
\* the concatenation of a sequence of sequences
Concat(seqs) == IF seqs = <<>> THEN <<>> ELSE Head(seqs) \o Concat(Tail(seqs))

\* ceiling(n / size): the least k with k * size >= n
Ceiling(n, size) == CHOOSE k \in 0..n : k * size >= n /\ (k = 0 \/ (k - 1) * size < n)

\* C16: the rendered pages number max(1, ceil(N / P)) for a filtered list of
\* length N and page size P, every page but the last holds P items, and the
\* pages concatenated in order are the filtered list.
C16_PagesPartitionList ==
    (variant = 3 /\ mounted) =>
        LET n == Len(filteredTasks)
            c == Ceiling(n, pageSize)
        IN  /\ Len(pages) = (IF c < 1 THEN 1 ELSE c)
            /\ \A p \in 1..(Len(pages) - 1) : Len(pages[p]) = pageSize
            /\ Concat(pages) = filteredTasks

\* page size 8 and 17 filtered items: 3 pages, 1 item on page 3
C16_Witness ==
    /\ variant = 3 /\ mounted
    /\ pageSize = 8 /\ Len(filteredTasks) = 17
    /\ Len(pages) = 3 /\ Len(pages[3]) = 1

IsShown(t) == \E k \in DOMAIN filteredTasks : filteredTasks[k] = t

\* C18: the week tab shows every task that has a due date, is due at most
\* seven days after today - be it overdue - and is not completed; the today
\* and week tabs never show a task without a due date.
C18_WeekHasNoLowerBound ==
    (variant = 2 /\ mounted) =>
        /\ activeTab = "week" =>
              \A i \in DOMAIN tasks :
                  (/\ tasks[i].due_date # NoDate
                   /\ DayOf(tasks[i].due_date) <= now + 7
                   /\ tasks[i].status # "completed") => IsShown(tasks[i])
        /\ activeTab \in {"today", "week"} =>
              \A k \in DOMAIN filteredTasks : filteredTasks[k].due_date # NoDate

\* the week tab shows an overdue task and leaves out one without a due date
C18_Witness ==
    /\ variant = 2 /\ mounted /\ activeTab = "week"
    /\ \E k \in DOMAIN filteredTasks : DayOf(filteredTasks[k].due_date) < now
    /\ \E i \in DOMAIN tasks : tasks[i].due_date = NoDate /\ tasks[i].status = "todo"

\* the task was created on the current UTC day
CreatedToday(t) == t.created_at # NoDate /\ DayOf(t.created_at[1]) = now

ToggleDarkMode == toggleDarkMode_v1 \/ toggleDarkMode_v2

\* the value a start reads from the stored flag
StoredDarkMode == localStorage.darkMode = "true"

\* C20: a toggle inverts darkMode and stores the new value, so two toggles in
\* a row give the value back; while the App is mounted the stored flag reads
\* as the in-memory value; a start restores the stored value and a reload
\* keeps the flag; every other step - login, logout, the task and chat
\* actions and their responses - leaves both the value and the flag as they are.
C20_DarkModePersists ==
    /\ [][ToggleDarkMode =>
            /\ darkMode' = ~darkMode
            /\ localStorage'.darkMode = Stringify(darkMode')]_vars
    /\ [](mounted => darkMode = StoredDarkMode)
    /\ [][(Mount_v1 \/ Mount_v2) => darkMode' = StoredDarkMode]_vars
    /\ [][Reload => localStorage'.darkMode = localStorage.darkMode]_vars
    /\ [][(mounted /\ mounted' /\ ~ToggleDarkMode) =>
            /\ darkMode' = darkMode
            /\ localStorage'.darkMode = localStorage.darkMode]_vars

\* variant 2 restored dark mode at a start: the session came from local
\* storage (no greeting in the transcript) and darkMode is on
C20_Witness ==
    /\ variant = 2 /\ mounted /\ isAuthenticated
    /\ messages = <<>>
    /\ darkMode /\ localStorage.darkMode = "true"

(***************************************************************************)
(* C21-C28                                                                 *)
(***************************************************************************)
\* a POST of the Login form
IsForm(req) == req.kind \in {"signup", "login"}
Logins(reqs) == Cardinality({j \in DOMAIN reqs : reqs[j].kind = "login"})

\* the handler takes up the outcome of the form's request i at this step
Taken(i) ==
    /\ i \in DOMAIN net /\ IsForm(net[i])
    /\ \A j \in DOMAIN net' : net'[j].kind # net[i].kind

\* the catch and finally blocks ran and nothing else did
SubmitFailed ==
    /\ error' # ""
    /\ loginLoading' = FALSE
    /\ localStorage' = localStorage
    /\ <<isAuthenticated', token', username'>> = <<isAuthenticated, token, username>>
    /\ \A j \in DOMAIN net' : ~IsForm(net'[j])

\* the signup is followed by the login of the same user, nothing is stored
SignupThenLogin(i) ==
    /\ net[i].kind = "signup"
    /\ \E j \in DOMAIN net' : net'[j].kind = "login" /\ net'[j].text = net[i].text
    /\ localStorage' = localStorage
    /\ <<isAuthenticated', token', username'>> = <<isAuthenticated, token, username>>
    /\ loginLoading' = loginLoading

\* the session of the login response is stored and handed to onLoginSuccess
LoggedIn(i) ==
    /\ net[i].kind = "login" /\ net[i].phase = "ok"
    /\ localStorage' = [localStorage EXCEPT !.token = net[i].textResp[1],
                                            !.username = net[i].textResp[2]]
    /\ isAuthenticated'
    /\ <<token', username'>> = <<net[i].textResp[1], net[i].textResp[2]>>
    /\ loginLoading' = FALSE

\* C21: a login request is issued by a submit in login mode or by the step
\* that takes up a successful signup, never after a failed one; local storage
\* is written and onLoginSuccess called only by the step that takes up a
\* successful login response, the storage holding the response's token and
\* username; every other outcome of a request of the form shows an error,
\* stores nothing, leaves the App unauthenticated and ends loading
C21_SignupThenLoginOrdering ==
    /\ [][\A i \in DOMAIN net : Taken(i) =>
              IF net[i].phase = "ok"
              THEN SignupThenLogin(i) \/ LoggedIn(i) \/ SubmitFailed
              ELSE SubmitFailed]_vars
    /\ [][Logins(net') > Logins(net) =>
              \/ ~isSignup /\ \A j \in DOMAIN net : ~IsForm(net[j])
              \/ \E i \in DOMAIN net : Taken(i) /\ net[i].phase = "ok"
                                         /\ SignupThenLogin(i)]_vars
    /\ [][(localStorage' # localStorage \/ isAuthenticated' # isAuthenticated) =>
              \E i \in DOMAIN net : Taken(i) /\ LoggedIn(i)]_vars
    /\ [](Cardinality({j \in DOMAIN net : IsForm(net[j])}) <= 1)

\* a signup went through: the account was created, the login that followed
\* succeeded and its session is stored
C21_Witness ==
    /\ isSignup /\ isAuthenticated /\ ~loginLoading /\ error = ""
    /\ localStorage.token = token /\ localStorage.username = username
    /\ token \in {TokenOf[u] : u \in Users}

\* C22: in variant 1 a sendMessage with a blank input or with loading set
\* changes nothing and issues nothing; at most one chat request is in flight;
\* loading is true exactly while one is; the step that takes up its outcome,
\* success or failure, sets loading false
C22_ChatRequestGating ==
    /\ [][(sendMessage_v1 /\ (Trim(input) = "" \/ loading)) =>
            UNCHANGED <<memory, net, localStorage>>]_vars
    /\ [](variant = 1 => InFlight(net, "chat") <= 1)
    /\ [](variant = 1 => (loading <=> InFlight(net, "chat") = 1))
    /\ [][\A i \in DOMAIN net : (sendMessageOk_v1(i) \/ sendMessageFail_v1(i)) =>
            ~loading' /\ InFlight(net', "chat") = 0]_vars

\* a message was accepted in variant 1: it ends the transcript, its request
\* is in flight, loading is set and the input cleared
C22_Witness ==
    /\ variant = 1 /\ loading /\ input = ""
    /\ InFlight(net, "chat") = 1
    /\ messages[Len(messages)].role = "user"

\* the transcript grew by this one message
Appended(m) == messages' = Append(messages, m)
\* the transcript kept all it had, in place
OnlyGrows == Len(messages') >= Len(messages) /\ SubSeq(messages', 1, Len(messages)) = messages

LogoutInvoked == handleLogout_v1 \/ handleLogout_v2
SendAccepted ==
    \/ sendMessage_v1 /\ Trim(input) # "" /\ ~loading
    \/ sendMessage_v2 /\ Trim(input) # ""
ChatAnswered(i) == sendMessageOk_v1(i) \/ sendMessageOk_v2(i)
ChatFailed(i) == sendMessageFail_v1(i) \/ sendMessageFail_v2(i)
\* the user's message of the chat request i is in the transcript
Asked(i) == \E k \in DOMAIN messages : messages[k] = Msg("user", <<net[i].text>>)

\* C23 as claimed: an accepted sendMessage appends the user's message; the
\* step that takes up the outcome of its request appends one assistant
\* message, the backend's response or the fixed error text, to a transcript
\* that holds the user's message; every step but a logout and a reload of the
\* page keeps the transcript's entries in place.
C23_TranscriptOrdering ==
    /\ [][SendAccepted => Appended(Msg("user", <<net'[Len(net')].text>>))]_vars
    /\ [][\A i \in DOMAIN net :
            /\ ChatAnswered(i) => Asked(i) /\ Appended(Msg("assistant", net[i].textResp))
            /\ ChatFailed(i) => Asked(i) /\ (Appended(ChatError) \/ Appended(ChatError_v2))]_vars
    /\ [][LogoutInvoked \/ Reload \/ OnlyGrows]_vars

\* the Login view that submitted the request i is still shown: the request
\* was issued after the App was last authenticated
IssuedSinceLogout(i) == ~net[i].orphan

\* C24 as claimed: once handleLogout has run, the App becomes authenticated
\* only by handleLoginSuccess taking up the response to a login submitted
\* after the logout.
C24_LogoutIsFinal ==
    [][(loggedOut /\ ~isAuthenticated /\ isAuthenticated') =>
          \E i \in DOMAIN net :
              /\ handleLoginSuccess_v1(i) \/ handleLoginSuccess_v2(i)
              /\ IssuedSinceLogout(i)]_vars

\* C25 as claimed: while the App is authenticated the token and the username
\* in memory are not empty and local storage holds the same two values; and
\* local storage holds 'token' exactly if it holds 'username'.
C25_SessionStateConsistent ==
    /\ isAuthenticated =>
          /\ token # "" /\ username # ""
          /\ localStorage.token = token
          /\ localStorage.username = username
    /\ localStorage.token # Null <=> localStorage.username # Null

\* C26: the step of handleLogout leaves the token and the username empty,
\* the App unauthenticated, the task list empty, the transcript one
\* assistant greeting (variant 1) or empty (variant 2) and local storage
\* without 'token' and 'username'; darkMode, the stored darkMode flag, the
\* active tab and the sidebar state are as they were
C26_LogoutEffectAndFrame ==
    [][LogoutInvoked =>
          /\ token' = "" /\ username' = ""
          /\ ~isAuthenticated'
          /\ tasks' = <<>>
          /\ IF variant = 1
             THEN Len(messages') = 1 /\ messages'[1].role = "assistant"
             ELSE messages' = <<>>
          /\ localStorage'.token = Null /\ localStorage'.username = Null
          /\ darkMode' = darkMode
          /\ localStorage'.darkMode = localStorage.darkMode
          /\ activeTab' = activeTab
          /\ sidebarOpen' = sidebarOpen]_vars

\* logged out of variant 2 with another tab than the first selected: the
\* session is gone from memory and from local storage, the tab is kept
C26_Witness ==
    /\ variant = 2 /\ loggedOut /\ ~isAuthenticated
    /\ token = "" /\ tasks = <<>> /\ messages = <<>>
    /\ localStorage.token = Null
    /\ activeTab # "all"

\* what the sidebar would show for the same list and day under another tab
ResultOf(tab) == getFilteredTasks(tasks, tab, now)
TasksIn(list) == {list[k] : k \in DOMAIN list}
Disjoint(a, b) == TasksIn(a) \cap TasksIn(b) = {}

\* out is what is left of in when some of its elements are taken away
RECURSIVE Embeds(_, _)
Embeds(out, in) ==
    IF out = <<>> THEN TRUE
    ELSE IF in = <<>> THEN FALSE
    ELSE IF Head(out) = Head(in) THEN Embeds(Tail(out), Tail(in))
    ELSE Embeds(out, Tail(in))

\* C27: for the rendered list of any tab, task list and day: the today
\* result is a subsequence of the week result; the urgent and high results
\* are disjoint; the completed result is disjoint from the today, week,
\* urgent and high results; every result is a subsequence of the all result;
\* a tab outside the recognised set gives the all result
C27_TabRelations ==
    (variant = 2 /\ mounted) =>
        /\ activeTab = "today" => Embeds(filteredTasks, ResultOf("week"))
        /\ activeTab = "urgent" => Disjoint(filteredTasks, ResultOf("high"))
        /\ activeTab = "completed" =>
              \A tab \in {"today", "week", "urgent", "high"} :
                  Disjoint(filteredTasks, ResultOf(tab))
        /\ Embeds(filteredTasks, ResultOf("all"))
        /\ activeTab \notin Tabs => filteredTasks = ResultOf("all")

\* the today tab shows a task, and the week tab would show it and one more
C27_Witness ==
    /\ variant = 2 /\ mounted /\ activeTab = "today"
    /\ Len(filteredTasks) = 1
    /\ Len(ResultOf("week")) = 2

\* C28: for every task list over the fixed statuses and priorities the
\* Dashboard's todo, in-progress and completed counts add up to the total,
\* the Pending Tasks card shows the total less the completed count, so do
\* the four active-by-priority counts added up, and completedToday is at
\* most the completed count
C28_DashboardCountsConsistent ==
    (variant = 1 /\ mounted /\ stats # <<>>) =>
        /\ stats.todoTasks + stats.inProgressTasks + stats.completedTasks = stats.totalTasks
        /\ stats.pendingTasks = stats.totalTasks - stats.completedTasks
        /\ stats.urgentCount + stats.highCount + stats.mediumCount + stats.lowCount
              = stats.totalTasks - stats.completedTasks
        /\ stats.completedToday <= stats.completedTasks

\* a task in progress and a completed one that was not created today
C28_Witness ==
    /\ variant = 1 /\ mounted /\ stats # <<>>
    /\ stats.inProgressTasks = 1 /\ stats.pendingTasks = 1
    /\ stats.completedTasks = 1 /\ stats.completedToday = 0

====
